---- MODULE Spec2Model ----
(***************************************************************************)
(* Reconciliation engine of schoology-calendar: the scrape sync of the     *)
(* Electron main process (SyncService), the file import of the renderer    *)
(* (ImportComponent.processFiles), the IndexedDB tables both write         *)
(* (SchoologyCalendarDB: events, courses) and the reactive view            *)
(* (EventManagerService).  Every awaited store operation is one step, so   *)
(* the two writers interleave at the granularity of the awaits.            *)
(***************************************************************************)
EXTENDS Integers, Sequences, FiniteSets, TLC

(* ------------------------------ bounds -------------------------------- *)

\* Operations started in one behaviour (syncNow, processFiles, clearDatabase,
\* deleteEvent, deleteCourse).
MaxOps == 2
\* markEventCompleted calls in one behaviour.
MaxMarks == 1
\* The clock reads an instant of 0..MaxTime.
MaxTime == 1
\* VEVENTs in a document given to the parser.
MaxEntries == 5
\* DOM elements the event selector matches on a course page.
MaxElements == 2

(* ------------------------------ helpers ------------------------------- *)

Range(s) == {s[k] : k \in DOMAIN s}

RECURSIVE SeqOfSet(_)
\* Some enumeration of a finite set as a sequence.
SeqOfSet(S) == IF S = {} THEN <<>>
               ELSE LET x == CHOOSE y \in S : TRUE IN <<x>> \o SeqOfSet(S \ {x})

\* A function with one key added or overwritten (Table.put / Table.add).
Put(f, k, v) == [x \in DOMAIN f \cup {k} |-> IF x = k THEN v ELSE f[x]]

\* A function without the keys in K (Table.delete / Table.bulkDelete).
Drop(f, K) == [x \in DOMAIN f \ K |-> f[x]]

(* ------------------------------ values -------------------------------- *)

\* colorPalette of processScrapedData and colors of generateRandomColor: the
\* same fifteen entries, '#A29BFE' twice.
colorPalette == << "#FF6B6B", "#4ECDC4", "#45B7D1", "#FFA07A", "#98D8C8",
                   "#6C5CE7", "#A29BFE", "#FD79A8", "#FDCB6E", "#E17055",
                   "#74B9FF", "#A29BFE", "#00B894", "#00CEC9", "#FF7675" >>

\* Outcomes of Math.floor(Math.random() * colorPalette.length) that the model
\* draws (0-based).
RandomIndexes == {7}

\* Date.toISOString of the instant t, and new Date(iso) of such a string.
ToIso(t) == "T" \o ToString(t) \o "Z"
Instants == 0..(MaxTime + 1)
FromIso(s) == CHOOSE t \in Instants : ToIso(t) = s

(* ------------------------------ state --------------------------------- *)

VARIABLES
  dbEvents,      \* IndexedDB table events: id -> CalendarEvent
  dbCourses,     \* IndexedDB table courses: id -> Course
  credentials,   \* electron-store key 'credentials' is set
  isSyncing,     \* SyncService.isSyncing
  lastSyncTime,  \* SyncService.lastSyncTime (-1: null)
  sync,          \* the syncNow invocations so far, each with its locals
  lastRun,       \* history: the processScrapedData run that returned last
  eventsSubject,          \* EventManagerService: latest value of events$
  coursesSubject,         \* EventManagerService: latest value of courses$
  activeCourseIdsSubject, \* EventManagerService: latest value of activeCourseIds$
  imp,           \* ImportComponent.processFiles: its position and locals
  lastImport,    \* history: the processFiles run that returned last
  marks,         \* markEventCompleted calls so far
  admin,         \* clearDatabase / deleteCourse in flight: its position
  now,           \* the clock (Date.now / new Date())
  nextId,        \* freshness of generateUniqueId / generateId
  ops,           \* operations started so far
  lastFilter,    \* history: the last call of the course filter
  sent,          \* the channels notifyRenderer has sent on, in order
  syncInterval,  \* SyncService.syncInterval: the timer it holds ("": null)
  syncIntervalMinutes, \* SyncService.syncIntervalMinutes
  timers,        \* the setInterval timers that are live, with their periods
  load           \* EventManagerService.loadData in flight: its snapshot

store == <<dbEvents, dbCourses>>
mainVars == <<credentials, isSyncing, lastSyncTime, sync, lastRun>>
viewVars == <<eventsSubject, coursesSubject, activeCourseIdsSubject>>
importVars == <<imp, lastImport>>
timerVars == <<syncInterval, syncIntervalMinutes, timers>>
vars == <<store, mainVars, viewVars, importVars, marks, admin, now, nextId, ops,
          lastFilter, sent, timerVars, load>>

(* ------------------------- the remote site ---------------------------- *)

\* Titles of the elements the course pages show.
Titles == {"A", "B"}

\* The characters of the texts the model uses (titles, summaries,
\* descriptions), in order.
Chars(text) == CASE text = "A" -> <<"A">>
                 [] text = "B" -> <<"B">>
                 [] text = "Homework 4 Exam Prep" -> <<"H", "o", "m", "e", "w", "o", "r", "k", " ", "4", " ", "E", "x", "a", "m", " ", "P", "r", "e", "p">>
                 [] text = "Quiz 2" -> <<"Q", "u", "i", "z", " ", "2">>
                 [] text = "Final Project" -> <<"F", "i", "n", "a", "l", " ", "P", "r", "o", "j", "e", "c", "t">>
                 [] text = "Project plan" -> <<"P", "r", "o", "j", "e", "c", "t", " ", "p", "l", "a", "n">>
                 [] text = "HW 3" -> <<"H", "W", " ", "3">>
                 [] text = "Lab report" -> <<"L", "a", "b", " ", "r", "e", "p", "o", "r", "t">>
                 [] text = "Reading" -> <<"R", "e", "a", "d", "i", "n", "g">>
                 [] text = "homework due" -> <<"h", "o", "m", "e", "w", "o", "r", "k", " ", "d", "u", "e">>
                 [] text = "Latest news" -> <<"L", "a", "t", "e", "s", "t", " ", "n", "e", "w", "s">>
                 [] text = "math-101-calendar.ical" -> <<"m", "a", "t", "h", "-", "1", "0", "1", "-", "c", "a", "l", "e", "n", "d", "a", "r", ".", "i", "c", "a", "l">>
                 [] text = "Math-101-Calendar.ics" -> <<"M", "a", "t", "h", "-", "1", "0", "1", "-", "C", "a", "l", "e", "n", "d", "a", "r", ".", "i", "c", "s">>
                 [] text = "art_history.ics" -> <<"a", "r", "t", "_", "h", "i", "s", "t", "o", "r", "y", ".", "i", "c", "s">>
                 [] text = "notes.txt" -> <<"n", "o", "t", "e", "s", ".", "t", "x", "t">>
                 [] text = "-calendar.ics" -> <<"-", "c", "a", "l", "e", "n", "d", "a", "r", ".", "i", "c", "s">>
                 [] text = "" -> <<>>

\* String.toLowerCase, character by character.
UpperCase == <<"A", "B", "C", "D", "E", "F", "G", "H", "I", "J", "K", "L", "M", "N", "O", "P", "Q", "R", "S", "T", "U", "V", "W", "X", "Y", "Z">>
LowerCase == <<"a", "b", "c", "d", "e", "f", "g", "h", "i", "j", "k", "l", "m", "n", "o", "p", "q", "r", "s", "t", "u", "v", "w", "x", "y", "z">>
toLowerCase(ch) == IF \E k \in DOMAIN UpperCase : UpperCase[k] = ch
                   THEN LowerCase[CHOOSE k \in DOMAIN UpperCase : UpperCase[k] = ch]
                   ELSE ch
LowerChars(title) == [k \in DOMAIN Chars(title) |-> toLowerCase(Chars(title)[k])]

\* String.includes on character sequences.
Includes(text, word) ==
  \E k \in 0..(Len(text) - Len(word)) : SubSeq(text, k + 1, k + Len(word)) = word

\* getCourseCalendar's type of an element, from its title alone.
ScrapeType(title) ==
  LET t == LowerChars(title) IN
  IF Includes(t, <<"e","x","a","m">>) \/ Includes(t, <<"t","e","s","t">>) THEN "exam"
  ELSE IF Includes(t, <<"q","u","i","z">>) THEN "quiz"
  ELSE IF Includes(t, <<"p","r","o","j","e","c","t">>) THEN "project"
  ELSE "assignment"

\* The courses page, in document order (getCourses).
SiteCourses == << [id |-> "101", name |-> "Math"], [id |-> "102", name |-> "Art"] >>

\* The elements (title, due instant) a course page may show.
PageItems(courseId) ==
  IF courseId = "101" THEN {<<"A", 0>>, <<"B", 0>>, <<"A", 1>>}
  ELSE {<<"A", 0>>}

\* One element of a course page as getCourseCalendar pushes it.
ScrapedEvent(course, item) ==
  [ title |-> item[1], description |-> "", dueDate |-> ToIso(item[2]),
    courseId |-> course.id, courseName |-> course.name, type |-> ScrapeType(item[1]) ]

\* getCourseCalendar: the events of one page; [] when the fetch fails.
getCourseCalendar(course, page) ==
  IF page.ok THEN [k \in DOMAIN SeqOfSet(page.items) |->
                     ScrapedEvent(course, SeqOfSet(page.items)[k])]
  ELSE <<>>

\* What a course page can be at one scrape: an error (timeout, navigation
\* failure) or some of its elements.  The page of course 102 never changes.
Pages(courseId) ==
  IF courseId = "101"
  THEN {[ok |-> FALSE, items |-> {}]} \cup
       {[ok |-> TRUE, items |-> S] : S \in SUBSET PageItems(courseId)}
  ELSE {[ok |-> TRUE, items |-> PageItems(courseId)]}

\* scrapeAllData after a successful login and course list: the courses the
\* site lists (a prefix-closed choice of SiteCourses) with their pages.
ScrapeData(listed, page) ==
  LET cal(k) == getCourseCalendar(listed[k], page[listed[k].id])
      RECURSIVE all(_)
      all(k) == IF k > Len(listed) THEN <<>> ELSE cal(k) \o all(k + 1)
  IN [ success |-> TRUE, elements |-> <<>>,
       courses |-> [k \in DOMAIN listed |->
                      [id |-> listed[k].id, name |-> listed[k].name,
                       eventCount |-> Len(cal(k))]],
       events  |-> all(1),
       failed  |-> {listed[k].id : k \in {j \in DOMAIN listed : ~page[listed[j].id].ok}} ]

\* The course lists getCourses may return.
Listings == {SubSeq(SiteCourses, 1, n) : n \in 1..Len(SiteCourses)}

\* The pages of the listed courses at one scrape.
SitePages(listed) ==
  LET ids == {listed[k].id : k \in DOMAIN listed}
  IN {f \in [ids -> UNION {Pages(c) : c \in ids}] : \A c \in ids : f[c] \in Pages(c)}

\* (failed and elements are history: the courses whose fetch hit the catch
\* branch, and the DOM elements of the page where the model draws them; the
\* data scrapeAllData returns does not carry them.)
\* Every result scrapeAllData may resolve to: a failure (login, course list),
\* or the data of some listing.
ScrapeResults ==
  {[success |-> FALSE, elements |-> <<>>, courses |-> <<>>, events |-> <<>>, failed |-> {}]}
  \cup UNION { {ScrapeData(listed, page) : page \in SitePages(listed)} : listed \in Listings }

(* ----------------------- the page's elements -------------------------- *)

\* new Date(text): the instant the text denotes, InvalidDate when it denotes
\* none.
InvalidDate == -1
ParseDate(text) ==
  IF \E t \in Instants : ToIso(t) = text THEN FromIso(text) ELSE InvalidDate

\* An element the event selector matches: whether it has a title element,
\* the datetime attribute of its date element and that element's text (both
\* "" when it has no date element).
Element(hasTitle, datetime, dateText) ==
  [hasTitle |-> hasTitle, title |-> "A", description |-> "",
   datetime |-> datetime, dateText |-> dateText]

Elements ==
  { Element(TRUE, ToIso(0), ""), Element(TRUE, "TBD", ""), Element(TRUE, "", ToIso(0)),
    Element(TRUE, "", "Tomorrow"), Element(TRUE, "", ""), Element(FALSE, "", ToIso(0)) }

\* The body of eventElements.forEach for one element: the drafts it pushes.
\* An element without a title pushes nothing; toISOString of an Invalid Date
\* throws a RangeError, which the catch logs, and nothing is pushed.
ElementDraft(course, element) ==
  IF ~element.hasTitle THEN <<>>
  ELSE LET dueDate == IF element.datetime # "" THEN ParseDate(element.datetime)
                      ELSE IF element.dateText # "" THEN ParseDate(element.dateText)
                      ELSE now
       IN IF dueDate = InvalidDate THEN <<>>
          ELSE << [ title |-> element.title, description |-> element.description,
                    dueDate |-> ToIso(dueDate), courseId |-> course.id,
                    courseName |-> course.name, type |-> ScrapeType(element.title) ] >>

RECURSIVE EvaluateElements(_, _)
\* page.evaluate of getCourseCalendar over the elements in document order.
EvaluateElements(course, elements) ==
  IF elements = <<>> THEN <<>>
  ELSE ElementDraft(course, Head(elements)) \o EvaluateElements(course, Tail(elements))

\* The pages of up to MaxElements elements, and the names the site may show
\* for course 101.
ElementPages == UNION {[1..n -> Elements] : n \in 0..MaxElements}
CourseNames == {"Math", "Algebra"}

\* scrapeAllData on such a site.
ElementData(name, elements) ==
  LET course == [id |-> "101", name |-> name]
      events == EvaluateElements(course, elements)
  IN [ success |-> TRUE, elements |-> elements,
       courses |-> <<[id |-> course.id, name |-> course.name, eventCount |-> Len(events)]>>,
       events |-> events, failed |-> {} ]

\* What scrapeAllData may resolve to on such a site: a failure, or the data.
ElementResults ==
  {[success |-> FALSE, elements |-> <<>>, courses |-> <<>>, events |-> <<>>, failed |-> {}]}
  \cup {ElementData(name, elements) : name \in CourseNames, elements \in ElementPages}

(* --------------------------- SyncService ------------------------------ *)

\* No processScrapedData run has returned yet.
NoRun == [ran |-> FALSE, courses |-> <<>>, events |-> <<>>, after |-> <<>>]

\* The locals of a syncNow invocation that is not inside processScrapedData.
NoLocals ==
  [ courses |-> <<>>, events |-> <<>>, failed |-> {}, elements |-> <<>>, idx |-> 0,
    existingCourseIds |-> {}, existingEventMap |-> <<>>, seenEventIds |-> {},
    before |-> [events |-> <<>>, courses |-> <<>>], foreign |-> FALSE ]

\* What syncNow returns: {success, message}; Pending while it has not returned.
Pending == [success |-> FALSE, message |-> ""]

\* The 'sync-now' IPC handler once syncNow has resolved (syncNow catches its
\* own errors, so the handler's catch never runs): { success: true, result }.
ipcSyncNow(result) == [success |-> TRUE, result |-> result]

\* A syncNow invocation: its position, what it returned, its locals, and
\* reply: what the 'sync-now' handler answers the renderer for it (Pending
\* until syncNow returns).
Invocation(pc, result, locals) ==
  [ pc |-> pc, result |-> result,
    reply |-> IF pc \in {"rejected", "done"} THEN ipcSyncNow(result)
              ELSE [success |-> FALSE, result |-> Pending] ] @@ locals
AlreadyInProgress == [success |-> FALSE, message |-> "Sync already in progress"]
SyncError == [success |-> FALSE, message |-> "error.message"]
SyncCompleted == [success |-> TRUE, message |-> "Sync completed successfully"]

\* A syncNow invocation is between isSyncing = true and its finally block.
InFlight(s) == s.pc \notin {"rejected", "done"}

\* generateEventKey: `${event.courseId}-${event.title}-${event.dueDate}`; a
\* missing property prints as "undefined".
generateEventKey(event) ==
  event.courseId \o "-" \o event.title \o "-" \o
    (IF "dueDate" \in DOMAIN event THEN event.dueDate ELSE "undefined")

\* generateUniqueId: `event-${Date.now()}-${random}`, a value no earlier call
\* returned.
generateUniqueId == "event-" \o ToString(nextId)

\* new Map(existingEvents.map(e => [generateEventKey(e), e.id])): one id per
\* key, the last in toArray order.  The order is the order of the ids, which
\* for ids of one millisecond is the order of their random parts: any of the
\* ids with that key may be the one kept.
EventMaps(db) ==
  LET keys == {generateEventKey(db[id]) : id \in DOMAIN db}
  IN {m \in [keys -> DOMAIN db] : \A k \in keys : generateEventKey(db[m[k]]) = k}

\* History: a write of the other process lands while a batch is in flight.
ImportTouched == IF imp.pc = "idle" THEN imp ELSE [imp EXCEPT !.foreign = TRUE]
AdminTouched == IF admin.id = "" THEN admin ELSE [admin EXCEPT !.foreign = TRUE]
SyncTouched ==
  [i \in DOMAIN sync |->
     IF sync[i].pc \in {"readCourses", "courses", "events", "deleted"}
     THEN [sync[i] EXCEPT !.foreign = TRUE] ELSE sync[i]]

\* A syncNow without its guard.
SyncGuardOff == FALSE

\* The guard of syncNow.
SyncGuard == isSyncing

\* A syncNow that announces itself before its guard.
NotifyBeforeGuard == <<"sync-start">>

\* What a syncNow that the guard rejects has sent: nothing.
RejectedNotifies == <<>>

\* A credentials check that lets every sync through.
MissingCredentialsIgnored(stored) == FALSE

\* if (!credentials) throw, on store.get('credentials').
MissingCredentials(stored) == ~stored

\* A finally block that keeps the guard.
FinallyKeepsGuard == TRUE

\* finally { this.isSyncing = false }: the value isSyncing takes.
Finally == FALSE

\* syncNow up to its first await, with stored: the credentials are in the
\* store.  The guard; isSyncing = true and 'sync-start'; the credentials
\* check, whose failure runs catch ('sync-error') and finally at once.
SyncNowCall(stored) ==
  /\ ops < MaxOps
  /\ ops' = ops + 1
  /\ IF SyncGuard
     THEN /\ sync' = Append(sync, Invocation("rejected", AlreadyInProgress, NoLocals))
          /\ sent' = sent \o RejectedNotifies
          /\ UNCHANGED isSyncing
     ELSE IF MissingCredentials(stored)
     THEN /\ sync' = Append(sync, Invocation("done", SyncError, NoLocals))
          /\ sent' = sent \o <<"sync-start", "sync-error">>
          /\ isSyncing' = Finally
     ELSE /\ sync' = Append(sync, Invocation("scraping", Pending, NoLocals))
          /\ sent' = Append(sent, "sync-start")
          /\ isSyncing' = TRUE
  /\ UNCHANGED <<admin, store, lastSyncTime, lastRun, viewVars, importVars, marks, now, nextId>>
  /\ UNCHANGED <<lastFilter, load>>

\* syncNow, called by the 'sync-now' handler.
SyncNow ==
  /\ SyncNowCall(credentials)
  /\ UNCHANGED <<credentials, timerVars>>

\* catch and finally of syncNow.
SyncFails(i) ==
  /\ sync' = [sync EXCEPT ![i] = Invocation("done", SyncError, NoLocals)]
  /\ sent' = Append(sent, "sync-error")
  /\ isSyncing' = Finally

\* scrapeAllData resolves to one of results; on success processScrapedData
\* starts and awaits database.courses.toArray().
ScrapeDoneFrom(i, results) ==
  /\ sync[i].pc = "scraping"
  /\ \E r \in results :
       IF ~r.success THEN SyncFails(i)
       ELSE /\ sync' = [sync EXCEPT ![i].pc = "readCourses", ![i].courses = r.courses,
                                    ![i].events = r.events, ![i].failed = r.failed,
                                    ![i].elements = r.elements,
                                    ![i].before = [events |-> dbEvents, courses |-> dbCourses]]
            /\ UNCHANGED <<isSyncing, sent>>
  /\ UNCHANGED <<admin, store, credentials, lastSyncTime, lastRun, viewVars, importVars, marks, now, nextId, ops>>
  /\ UNCHANGED <<lastFilter, timerVars, load>>

ScrapeDone(i) == ScrapeDoneFrom(i, ScrapeResults)

\* The scrape of a site that lists course 101 alone, under one of its
\* names, with a page of DOM elements.
ScrapeElements(i) == ScrapeDoneFrom(i, ElementResults)

\* existingCourses = await database.courses.toArray().
ReadCourses(i) ==
  /\ sync[i].pc = "readCourses"
  /\ sync' = [sync EXCEPT ![i].pc = "courses", ![i].idx = 1,
                          ![i].existingCourseIds = DOMAIN dbCourses]
  /\ UNCHANGED <<admin, store, credentials, isSyncing, lastSyncTime, lastRun, viewVars, importVars, marks, now, nextId, ops>>
  /\ UNCHANGED <<lastFilter, sent, timerVars, load>>

\* A courses.update that also flips isActive.
updateCourseTogglingActive(db, id, eventCount) ==
  IF id \in DOMAIN db
  THEN [db EXCEPT ![id].eventCount = eventCount, ![id].isActive = ~db[id].isActive]
  ELSE db

\* database.courses.update(id, {eventCount}): the one property is replaced;
\* nothing happens when the key is not stored.
updateCourse(db, id, eventCount) ==
  IF id \in DOMAIN db THEN [db EXCEPT ![id].eventCount = eventCount] ELSE db

\* One iteration of the course loop: add a new course, or update the
\* eventCount of an existing one.
ProcessCourse(i) ==
  /\ sync[i].pc = "courses"
  /\ sync[i].idx <= Len(sync[i].courses)
  /\ LET course == sync[i].courses[sync[i].idx] IN
     IF course.id \notin sync[i].existingCourseIds
     THEN IF course.id \in DOMAIN dbCourses
          THEN \* Table.add rejects a key that exists
               /\ SyncFails(i)
               /\ UNCHANGED dbCourses
          ELSE /\ dbCourses' = Put(dbCourses, course.id,
                      [ id |-> course.id, name |-> course.name,
                        color |-> colorPalette[((sync[i].idx - 1) % Len(colorPalette)) + 1],
                        isActive |-> TRUE, importedDate |-> now,
                        eventCount |-> course.eventCount, icsFileName |-> "auto-sync" ])
               /\ sync' = [sync EXCEPT ![i].idx = @ + 1]
               /\ UNCHANGED isSyncing
     ELSE /\ dbCourses' = updateCourse(dbCourses, course.id, course.eventCount)
          /\ sync' = [sync EXCEPT ![i].idx = @ + 1]
          /\ UNCHANGED isSyncing
  /\ imp' = ImportTouched
  /\ admin' = AdminTouched
  /\ UNCHANGED <<dbEvents, credentials, lastSyncTime, lastRun, viewVars, lastImport, marks, now, nextId, ops>>
  /\ UNCHANGED <<lastFilter, sent, timerVars, load>>

\* existingEvents = await database.events.toArray(), and the map built of it.
ReadEvents(i) ==
  /\ sync[i].pc = "courses"
  /\ sync[i].idx > Len(sync[i].courses)
  /\ \E m \in EventMaps(dbEvents) :
       sync' = [sync EXCEPT ![i].pc = "events", ![i].idx = 1,
                            ![i].existingEventMap = m, ![i].seenEventIds = {}]
  /\ UNCHANGED <<admin, store, credentials, isSyncing, lastSyncTime, lastRun, viewVars, importVars, marks, now, nextId, ops>>
  /\ UNCHANGED <<lastFilter, sent, timerVars, load>>

\* The status processScrapedData gives an event.
SyncStatus(dueDate) == IF FromIso(dueDate) < now THEN "overdue" ELSE "upcoming"

\* One iteration of the event loop.
ProcessEvent(i) ==
  /\ sync[i].pc = "events"
  /\ sync[i].idx <= Len(sync[i].events)
  /\ LET event == sync[i].events[sync[i].idx]
         eventKey == generateEventKey(event)
         known == eventKey \in DOMAIN sync[i].existingEventMap
         id == IF known THEN sync[i].existingEventMap[eventKey] ELSE generateUniqueId
     IN \E r \in RandomIndexes :
        LET calendarEvent ==
              [ id |-> id, title |-> event.title, description |-> event.description,
                startDate |-> FromIso(event.dueDate), endDate |-> FromIso(event.dueDate),
                eventType |-> event.type, courseId |-> event.courseId,
                courseName |-> event.courseName, courseColor |-> colorPalette[r + 1],
                status |-> SyncStatus(event.dueDate), isAllDay |-> TRUE ]
        IN /\ dbEvents' = IF known
                          THEN IF id \in DOMAIN dbEvents
                               THEN [dbEvents EXCEPT ![id] = calendarEvent]
                               ELSE dbEvents
                          ELSE Put(dbEvents, id, calendarEvent)
           /\ nextId' = IF known THEN nextId ELSE nextId + 1
           /\ sync' = [sync EXCEPT ![i].idx = @ + 1, ![i].seenEventIds = @ \cup {id}]
  /\ imp' = ImportTouched
  /\ admin' = AdminTouched
  /\ UNCHANGED <<dbCourses, credentials, isSyncing, lastSyncTime, lastRun, viewVars, lastImport, marks, now, ops>>
  /\ UNCHANGED <<lastFilter, sent, timerVars, load>>

\* eventIdsToDelete of processScrapedData.
eventIdsToDelete(s) == Range(s.existingEventMap) \ s.seenEventIds

\* await database.events.bulkDelete(eventIdsToDelete), when there are any.
DeleteStale(i) ==
  /\ sync[i].pc = "events"
  /\ sync[i].idx > Len(sync[i].events)
  /\ eventIdsToDelete(sync[i]) # {}
  /\ dbEvents' = Drop(dbEvents, eventIdsToDelete(sync[i]))
  /\ sync' = [sync EXCEPT ![i].pc = "deleted"]
  /\ imp' = ImportTouched
  /\ admin' = AdminTouched
  /\ UNCHANGED <<dbCourses, credentials, isSyncing, lastSyncTime, lastRun, viewVars, lastImport, marks, now, nextId, ops>>
  /\ UNCHANGED <<lastFilter, sent, timerVars, load>>

\* processScrapedData sends 'data-updated' and returns; syncNow records
\* lastSyncTime, sends 'sync-complete', returns success and runs finally.
SyncCompletes(i) ==
  /\ \/ sync[i].pc = "deleted"
     \/ /\ sync[i].pc = "events"
        /\ sync[i].idx > Len(sync[i].events)
        /\ eventIdsToDelete(sync[i]) = {}
  /\ lastRun' = [ran |-> TRUE, courses |-> sync[i].courses, events |-> sync[i].events,
                  after |-> dbEvents]
  /\ lastSyncTime' = now
  /\ sync' = [sync EXCEPT ![i] = Invocation("done", SyncCompleted, NoLocals)]
  /\ sent' = sent \o <<"data-updated", "sync-complete">>
  /\ isSyncing' = Finally
  /\ UNCHANGED <<admin, store, credentials, viewVars, importVars, marks, now, nextId, ops>>
  /\ UNCHANGED <<lastFilter, timerVars, load>>

\* A store write of processScrapedData is rejected: the error is rethrown to
\* syncNow.
SyncWriteFails(i) ==
  /\ \/ sync[i].pc = "courses" /\ sync[i].idx <= Len(sync[i].courses)
     \/ sync[i].pc = "events" /\ sync[i].idx <= Len(sync[i].events)
     \/ sync[i].pc = "events" /\ sync[i].idx > Len(sync[i].events)
          /\ eventIdsToDelete(sync[i]) # {}
  /\ SyncFails(i)
  /\ UNCHANGED <<admin, store, credentials, lastSyncTime, lastRun, viewVars, importVars, marks, now, nextId, ops>>
  /\ UNCHANGED <<lastFilter, timerVars, load>>

(* ----------------------- calendar documents --------------------------- *)

\* The .ics files the user can select.  Each carries X-WR-CALNAME; an entry
\* is a VEVENT with UID, SUMMARY, DESCRIPTION, DTSTART and DTEND (hasStart:
\* the VEVENT has a DTSTART).  parses: ICAL.parse accepts the content.
Entry(uid, summary, start, end) ==
  [uid |-> uid, summary |-> summary, description |-> "", start |-> start, end |-> end,
   isDate |-> TRUE, hasStart |-> TRUE]

Files ==
  { [name |-> "math.ics", calName |-> "Math", parses |-> TRUE,
     entries |-> <<Entry("uid-1", "A", 0, 0), Entry("uid-2", "B", 1, 1)>>],
    [name |-> "math-a.ics", calName |-> "Math", parses |-> TRUE,
     entries |-> <<Entry("uid-1", "A", 0, 0)>>] }

\* The selections processFiles can start with (selectedFiles).
Selections ==
  {<<f>> : f \in Files} \cup {s \in {<<f, g>> : f, g \in Files} : s[1] # s[2]}

\* Documents for the parser: of up to MaxEntries entries, each with or
\* without DTSTART; of one entry with a sample summary and description; one
\* that ICAL.parse rejects; and one with an entry that ends before it starts.
DocumentOf(flags) ==
  [ name |-> "entries.ics", calName |-> "History", parses |-> TRUE,
    entries |-> [k \in 1..Len(flags) |->
                   [Entry("uid-" \o ToString(k), "A", 0, 0) EXCEPT !.hasStart = flags[k]]] ]

SampleTexts ==
  { <<"Homework 4 Exam Prep", "">>, <<"Quiz 2", "">>, <<"Final Project", "">>,
    <<"Project plan", "">>, <<"HW 3", "">>, <<"Lab report", "">>,
    <<"Reading", "homework due">>, <<"Latest news", "">> }

SampleDocument(text) ==
  [ name |-> "sample.ics", calName |-> "History", parses |-> TRUE,
    entries |-> <<[Entry("uid-1", text[1], 0, 0) EXCEPT !.description = text[2]]>> ]

Unreadable == [name |-> "broken.ics", calName |-> "", parses |-> FALSE, entries |-> <<>>]

\* A document whose one entry has its DTEND before its DTSTART.
Reversed ==
  [ name |-> "reversed.ics", calName |-> "History", parses |-> TRUE,
    entries |-> <<Entry("uid-1", "A", 1, 0)>> ]

\* Names of files whose content has no X-WR-CALNAME property.
FileNames ==
  { "math-101-calendar.ical", "Math-101-Calendar.ics", "art_history.ics", "notes.txt",
    "-calendar.ics" }

\* A document without a calendar name, of one entry.
Unnamed(name) ==
  [ name |-> name, calName |-> "", parses |-> TRUE,
    entries |-> <<Entry("uid-1", "A", 0, 0)>> ]

Documents ==
  {DocumentOf(flags) : flags \in UNION {[1..n -> BOOLEAN] : n \in 0..MaxEntries}}
  \cup {SampleDocument(text) : text \in SampleTexts} \cup {Unreadable, Reversed}
  \cup {Unnamed(name) : name \in FileNames}

\* The selections of documents: each alone, and the rejected one beside a
\* file.
DocumentSelections ==
  {<<d>> : d \in Documents} \cup {<<Unreadable, f>> : f \in Files}
  \cup {<<f, Unreadable>> : f \in Files}

(* --------------------------- IcsParserService ------------------------- *)

\* A classifier that looks for the assignment keywords first.
detectEventTypeAssignmentFirst(summary, description) ==
  LET text == LowerChars(summary) \o <<" ">> \o LowerChars(description) IN
  IF \/ Includes(text, <<"a","s","s","i","g","n","m","e","n","t">>)
     \/ Includes(text, <<"h","o","m","e","w","o","r","k">>)
     \/ Includes(text, <<"h","w">>) THEN "assignment"
  ELSE IF \/ Includes(text, <<"e","x","a","m">>) \/ Includes(text, <<"t","e","s","t">>)
          \/ Includes(text, <<"m","i","d","t","e","r","m">>)
          \/ Includes(text, <<"f","i","n","a","l">>) THEN "exam"
  ELSE IF Includes(text, <<"q","u","i","z">>) THEN "quiz"
  ELSE IF Includes(text, <<"p","r","o","j","e","c","t">>) THEN "project"
  ELSE "other"

\* detectEventType.
detectEventType(summary, description) ==
  LET text == LowerChars(summary) \o <<" ">> \o LowerChars(description) IN
  IF \/ Includes(text, <<"e","x","a","m">>) \/ Includes(text, <<"t","e","s","t">>)
     \/ Includes(text, <<"m","i","d","t","e","r","m">>)
     \/ Includes(text, <<"f","i","n","a","l">>) THEN "exam"
  ELSE IF Includes(text, <<"q","u","i","z">>) THEN "quiz"
  ELSE IF Includes(text, <<"p","r","o","j","e","c","t">>) THEN "project"
  ELSE IF \/ Includes(text, <<"a","s","s","i","g","n","m","e","n","t">>)
          \/ Includes(text, <<"h","o","m","e","w","o","r","k">>)
          \/ Includes(text, <<"h","w">>) THEN "assignment"
  ELSE "other"

\* determineEventStatus.
determineEventStatus(endDate, atTime) == IF endDate < atTime THEN "overdue" ELSE "upcoming"

\* IcsParserService.generateUniqueId for the k-th entry of the file being
\* parsed: a value no earlier call returned.
parserUniqueId(k) == "event-" \o ToString(nextId) \o "-" \o ToString(k)

\* transformToCalendarEvent; fresh is the id generateUniqueId would return.
transformToCalendarEvent(icalEvent, courseId, courseName, courseColor, fresh) ==
  [ id |-> IF icalEvent.uid # "" THEN icalEvent.uid ELSE fresh,
    title |-> IF icalEvent.summary # "" THEN icalEvent.summary ELSE "Untitled Event",
    description |-> icalEvent.description,
    startDate |-> icalEvent.start, endDate |-> icalEvent.end,
    eventType |-> detectEventType(icalEvent.summary, icalEvent.description),
    courseId |-> courseId, courseName |-> courseName, courseColor |-> courseColor,
    status |-> determineEventStatus(icalEvent.end, now),
    isAllDay |-> icalEvent.isDate ]

\* A conversion that never throws.
ConversionNeverThrows(icalEvent) == FALSE

\* The conversion of an entry throws: a VEVENT without DTSTART has a null
\* startDate, and startDate.toJSDate() is a TypeError.
ConversionThrows(icalEvent) == ~icalEvent.hasStart

\* A success flag that is always set.
parseSuccessAlways(events) == TRUE

\* result.success = events.length > 0.
parseSuccess(events) == Len(events) > 0

\* A catch branch that records no error.
ParseFailureSilent ==
  [ success |-> FALSE, eventsImported |-> 0, hasEvents |-> FALSE, events |-> <<>>,
    errors |-> <<>>, warnings |-> <<>> ]

\* The catch branch of parseIcsFile (ICAL.parse throws): one error without a
\* line (line 0 here) and no events property.
ParseFailure ==
  [ success |-> FALSE, eventsImported |-> 0, hasEvents |-> FALSE, events |-> <<>>,
    errors |-> <<[line |-> 0, message |-> "Failed to parse ICS file", severity |-> "error"]>>,
    warnings |-> <<>> ]

\* parseIcsFile.  When ICAL.parse throws: ParseFailure.  Otherwise every
\* VEVENT is converted in order; one that throws adds an error with line
\* index + 1 and is skipped.
parseIcsFile(file, courseId, courseName, courseColor) ==
  LET n == Len(file.entries)
      converted(k) == transformToCalendarEvent(file.entries[k], courseId, courseName,
                                               courseColor, parserUniqueId(k))
      RECURSIVE eventsFrom(_), errorsFrom(_)
      eventsFrom(k) ==
        IF k > n THEN <<>>
        ELSE IF ConversionThrows(file.entries[k]) THEN eventsFrom(k + 1)
        ELSE <<converted(k)>> \o eventsFrom(k + 1)
      errorsFrom(k) ==
        IF k > n THEN <<>>
        ELSE IF ConversionThrows(file.entries[k])
        THEN <<[line |-> k, message |-> "Failed to parse event", severity |-> "error"]>>
             \o errorsFrom(k + 1)
        ELSE errorsFrom(k + 1)
  IN IF ~file.parses
     THEN ParseFailure
     ELSE [ success |-> parseSuccess(eventsFrom(1)), eventsImported |-> Len(eventsFrom(1)),
            hasEvents |-> TRUE, events |-> eventsFrom(1), errors |-> errorsFrom(1),
            warnings |-> IF n = 0 THEN <<"No events found in ICS file">> ELSE <<>> ]

\* String.toUpperCase of one character.
toUpperCase(ch) == IF \E k \in DOMAIN LowerCase : LowerCase[k] = ch
                   THEN UpperCase[CHOOSE k \in DOMAIN LowerCase : LowerCase[k] = ch]
                   ELSE ch

\* \w of a regular expression: a letter, a digit or the underscore.
WordChar(ch) ==
  \/ \E k \in DOMAIN LowerCase : ch \in {LowerCase[k], UpperCase[k]}
  \/ ch \in {"0", "1", "2", "3", "4", "5", "6", "7", "8", "9", "_"}

RECURSIVE Join(_)
\* The string of a sequence of characters.
Join(chars) == IF chars = <<>> THEN "" ELSE Head(chars) \o Join(Tail(chars))

\* A sequence of characters ends with a suffix, whatever the case (flag i).
EndsWith(chars, suffix) ==
  /\ Len(chars) >= Len(suffix)
  /\ [k \in 1..Len(suffix) |-> toLowerCase(chars[Len(chars) - Len(suffix) + k])] = suffix

\* The extension the file-name pattern of extractCourseName accepts.
Extensions == {<<".", "i", "c", "s">>}

\* fileName.match(/^(.+?)(?:-calendar)?\.ics$/i), for a pattern that accepts
\* the extensions exts: the set of the one group the match captures, empty
\* when there is no match.  The group is lazy and of one character at least:
\* it leaves a '-calendar' before the extension out when something precedes
\* it.
fileNameMatch(chars, exts) ==
  LET tail == <<"-", "c", "a", "l", "e", "n", "d", "a", "r">>
      stems == {SubSeq(chars, 1, Len(chars) - Len(ext)) :
                  ext \in {e \in exts : EndsWith(chars, e)}}
  IN {IF EndsWith(stem, tail) /\ Len(stem) > Len(tail)
      THEN SubSeq(stem, 1, Len(stem) - Len(tail)) ELSE stem :
        stem \in {st \in stems : Len(st) > 0}}

\* nameMatch[1].replace(/[-_]/g, ' ').replace(/\b\w/g, l => l.toUpperCase()):
\* separators become spaces, then the first character of every word is put
\* in upper case.
Capitalized(group) ==
  LET spaced == [k \in DOMAIN group |-> IF group[k] \in {"-", "_"} THEN " " ELSE group[k]]
  IN [k \in DOMAIN spaced |->
        IF WordChar(spaced[k]) /\ (k = 1 \/ ~WordChar(spaced[k - 1]))
        THEN toUpperCase(spaced[k]) ELSE spaced[k]]

\* The course name of a document under a file-name pattern that accepts
\* exts: the X-WR-CALNAME property when it is not empty, else the name made
\* of the file name when the pattern matches it, else 'Unnamed Course';
\* 'Unnamed Course' also when ICAL.parse throws.
CourseNameBy(file, exts) ==
  IF ~file.parses THEN "Unnamed Course"
  ELSE IF file.calName # "" THEN file.calName
  ELSE LET groups == fileNameMatch(Chars(file.name), exts)
       IN IF groups # {} THEN Join(Capitalized(CHOOSE g \in groups : TRUE))
          ELSE "Unnamed Course"

\* extractCourseName(icsContent, fileName).
extractCourseName(file) == CourseNameBy(file, Extensions)

\* EventManagerService.generateId: `${Date.now()}-${random}`.
generateId == ToString(nextId) \o "-r"

(* ------------------------ EventManagerService ------------------------- *)

\* A filter that shows nothing when no course id is active.
filteredEventsNoneWhenEmpty ==
  [id \in {x \in DOMAIN eventsSubject :
             eventsSubject[x].courseId \in activeCourseIdsSubject} |-> eventsSubject[id]]

\* filteredEvents$: the latest value of the derived stream.
filteredEvents ==
  IF activeCourseIdsSubject = {} THEN eventsSubject
  ELSE [id \in {x \in DOMAIN eventsSubject :
                  eventsSubject[x].courseId \in activeCourseIdsSubject} |-> eventsSubject[id]]

\* markEventCompleted(id) on an event the view shows: updateEvent writes the
\* status, reloadEvents emits the table.
MarkEventCompleted ==
  /\ marks < MaxMarks
  /\ \E id \in DOMAIN filteredEvents :
       /\ dbEvents' = IF id \in DOMAIN dbEvents
                      THEN [dbEvents EXCEPT ![id].status = "completed"]
                      ELSE dbEvents
       /\ eventsSubject' = dbEvents'
  /\ marks' = marks + 1
  /\ sync' = SyncTouched
  /\ imp' = ImportTouched
  /\ admin' = AdminTouched
  /\ UNCHANGED <<dbCourses, credentials, isSyncing, lastSyncTime, lastRun, coursesSubject,
                 activeCourseIdsSubject, lastImport, now, nextId, ops>>
  /\ UNCHANGED <<lastFilter, sent, timerVars, load>>

\* History: no call of the course filter yet.
NoFilter == [op |-> "", odd |-> FALSE]

\* History: the call op of the course filter; odd tells a call from the one
\* before it.
FilterCall(op) == [op |-> op, odd |-> ~lastFilter.odd]

\* toggleCourseFilter(courseId) on a course the calendar lists.
ToggleCourseFilter ==
  /\ \E courseId \in DOMAIN coursesSubject :
       activeCourseIdsSubject' = IF courseId \in activeCourseIdsSubject
                                 THEN activeCourseIdsSubject \ {courseId}
                                 ELSE activeCourseIdsSubject \cup {courseId}
  /\ lastFilter' = FilterCall("toggleCourseFilter")
  /\ UNCHANGED <<store, mainVars, eventsSubject, coursesSubject, importVars, marks, admin,
                 now, nextId, ops>>
  /\ UNCHANGED <<sent, timerVars, load>>

\* A showAllCourses that takes the course ids from the store.
allCourseIdsOfStore == DOMAIN dbCourses

\* showAllCourses: this.coursesSubject.value.map(c => c.id).
allCourseIds == DOMAIN coursesSubject

\* showAllCourses.
ShowAllCourses ==
  /\ activeCourseIdsSubject' = allCourseIds
  /\ lastFilter' = FilterCall("showAllCourses")
  /\ UNCHANGED <<store, mainVars, eventsSubject, coursesSubject, importVars, marks, admin,
                 now, nextId, ops>>
  /\ UNCHANGED <<sent, timerVars, load>>

\* hideAllCourses.
HideAllCourses ==
  /\ activeCourseIdsSubject' = {}
  /\ lastFilter' = FilterCall("hideAllCourses")
  /\ UNCHANGED <<store, mainVars, eventsSubject, coursesSubject, importVars, marks, admin,
                 now, nextId, ops>>
  /\ UNCHANGED <<sent, timerVars, load>>

(* ------------------- ImportComponent.processFiles --------------------- *)

Idle ==
  [ pc |-> "idle", files |-> <<>>, k |-> 0, parsed |-> <<>>, allCourses |-> <<>>,
    allEvents |-> <<>>, importResults |-> <<>>, failed |-> FALSE,
    before |-> [events |-> <<>>, courses |-> <<>>], foreign |-> FALSE ]

NoImport == [ran |-> FALSE, files |-> <<>>, after |-> <<>>]

\* processFiles starts on the selected files, one of selections; every file
\* is read.
ProcessFilesFrom(selections) ==
  /\ imp.pc = "idle"
  /\ ops < MaxOps
  /\ ops' = ops + 1
  /\ \E files \in selections :
       imp' = [Idle EXCEPT !.pc = "parsing", !.files = files, !.k = 1,
                           !.before = [events |-> dbEvents, courses |-> dbCourses]]
  /\ UNCHANGED <<admin, store, mainVars, viewVars, lastImport, marks, now, nextId>>
  /\ UNCHANGED <<lastFilter, sent, timerVars, load>>

ProcessFiles == ProcessFilesFrom(Selections)

\* processFiles on a selection of documents, in a renderer that has imported
\* nothing yet.
ImportDocuments == ops = 0 /\ ProcessFilesFrom(DocumentSelections)

\* The read of one file resolves and the file is parsed under a new course id
\* and a random color (the files in the order of the selection).  parseResult
\* is history: what parseIcsFile returned for the file.
ParseFile ==
  /\ imp.pc = "parsing"
  /\ imp.k <= Len(imp.files)
  /\ LET file == imp.files[imp.k]
         courseName == extractCourseName(file)
         courseId == generateId
     IN \E r \in RandomIndexes :
        LET courseColor == colorPalette[r + 1]
            parseResult == parseIcsFile(file, courseId, courseName, courseColor)
            result == IF parseResult.success /\ parseResult.hasEvents
                      THEN [file |-> file.name, success |-> TRUE, courseId |-> courseId,
                            courseName |-> courseName, courseColor |-> courseColor,
                            events |-> parseResult.events, error |-> "",
                            parseResult |-> parseResult]
                      ELSE [file |-> file.name, success |-> FALSE, courseId |-> "",
                            courseName |-> "", courseColor |-> "", events |-> <<>>,
                            error |-> IF Len(parseResult.errors) > 0
                                      THEN parseResult.errors[1].message
                                      ELSE "Failed to parse ICS file",
                            parseResult |-> parseResult]
        IN imp' = [imp EXCEPT !.parsed = Append(@, result), !.k = @ + 1]
  /\ nextId' = nextId + 1
  /\ UNCHANGED <<admin, store, mainVars, viewVars, lastImport, marks, now, ops>>
  /\ UNCHANGED <<lastFilter, sent, timerVars, load>>

RECURSIVE Flatten(_)
\* The concatenation of a sequence of sequences (allEvents.push(...events)).
Flatten(ss) == IF ss = <<>> THEN <<>> ELSE Head(ss) \o Flatten(Tail(ss))

\* A batch in which one failed file discards the results of all.
SuccessfulUnlessAnyFailed(parsed) ==
  IF \A k \in DOMAIN parsed : parsed[k].success THEN parsed ELSE <<>>

\* The elements of a sequence that satisfy a test, in order (Array.filter).
Successful(parsed) == SelectSeq(parsed, LAMBDA r : r.success)

\* processFiles returns: isProcessing = false, the history is taken.
Returned(failed) ==
  /\ lastImport' = [ran |-> ~failed /\ ~imp.foreign, files |-> imp.files, after |-> dbEvents]
  /\ imp' = [Idle EXCEPT !.importResults = imp.importResults, !.failed = failed]

\* A report with entries for the successful files alone.
ImportResultsOfSuccessful(parsed) ==
  LET good == Successful(parsed)
  IN [k \in DOMAIN good |->
        [ fileName |-> good[k].file, success |-> TRUE, courseName |-> good[k].courseName,
          eventsCount |-> Len(good[k].events), error |-> "" ]]

\* importResults as the loop of step 2 builds it: one entry pushed for every
\* parsed result, in order; for a failed one courseName '', eventsCount 0
\* and its error.
ImportResults(parsed) ==
  [k \in DOMAIN parsed |->
     IF parsed[k].success
     THEN [ fileName |-> parsed[k].file, success |-> TRUE,
            courseName |-> parsed[k].courseName,
            eventsCount |-> Len(parsed[k].events), error |-> "" ]
     ELSE [ fileName |-> parsed[k].file, success |-> FALSE, courseName |-> "",
            eventsCount |-> 0, error |-> parsed[k].error ]]

\* Step 2 of processFiles: allCourses, allEvents and importResults, once
\* every file is parsed.
CollectResults ==
  /\ imp.pc = "parsing"
  /\ imp.k > Len(imp.files)
  /\ LET good == Successful(imp.parsed)
         allCourses == [k \in DOMAIN good |->
                          [ id |-> good[k].courseId, name |-> good[k].courseName,
                            color |-> good[k].courseColor, isActive |-> TRUE,
                            importedDate |-> now, eventCount |-> Len(good[k].events),
                            icsFileName |-> good[k].file ]]
         allEvents == Flatten([k \in DOMAIN good |-> good[k].events])
         importResults == ImportResults(imp.parsed)
     IN IF Len(allCourses) > 0
        THEN /\ imp' = [imp EXCEPT !.pc = "addCourse", !.k = 1, !.parsed = <<>>,
                                   !.allCourses = allCourses, !.allEvents = allEvents,
                                   !.importResults = importResults]
             /\ UNCHANGED lastImport
        ELSE /\ lastImport' = [ran |-> ~imp.foreign, files |-> imp.files, after |-> dbEvents]
             /\ imp' = [Idle EXCEPT !.importResults = importResults]
  /\ UNCHANGED <<admin, store, mainVars, viewVars, marks, now, nextId, ops>>
  /\ UNCHANGED <<lastFilter, sent, timerVars, load>>

\* addCourse, first half: storageService.addCourse (Table.add).
AddCourse ==
  /\ imp.pc = "addCourse"
  /\ LET course == imp.allCourses[imp.k] IN
     /\ course.id \notin DOMAIN dbCourses
     /\ dbCourses' = Put(dbCourses, course.id, course)
  /\ imp' = [imp EXCEPT !.pc = "reloadCourses"]
  /\ sync' = SyncTouched
  /\ admin' = AdminTouched
  /\ UNCHANGED <<dbEvents, credentials, isSyncing, lastSyncTime, lastRun, viewVars,
                 lastImport, marks, now, nextId, ops>>
  /\ UNCHANGED <<lastFilter, sent, timerVars, load>>

\* addCourse, second half: reloadCourses emits the table and the course is
\* appended to the active ids.
ReloadCourses ==
  /\ imp.pc = "reloadCourses"
  /\ coursesSubject' = dbCourses
  /\ activeCourseIdsSubject' = activeCourseIdsSubject \cup {imp.allCourses[imp.k].id}
  /\ imp' = IF imp.k < Len(imp.allCourses)
            THEN [imp EXCEPT !.pc = "addCourse", !.k = @ + 1]
            ELSE [imp EXCEPT !.pc = "addEvents"]
  /\ admin' = AdminTouched
  /\ UNCHANGED <<store, mainVars, eventsSubject, lastImport, marks, now, nextId, ops>>
  /\ UNCHANGED <<lastFilter, sent, timerVars, load>>

\* A table that is cleared before the events are put.
addEventsReplacing(db, events) ==
  [id \in {events[k].id : k \in DOMAIN events} |->
     events[CHOOSE k \in DOMAIN events :
              /\ events[k].id = id
              /\ \A j \in DOMAIN events : events[j].id = id => j <= k]]

\* StorageService.addEvents: bulkPut of the events, each under its id; of two
\* events with one id the later is kept.
addEvents(db, events) ==
  [id \in DOMAIN db \cup {events[k].id : k \in DOMAIN events} |->
     IF \E k \in DOMAIN events : events[k].id = id
     THEN events[CHOOSE k \in DOMAIN events :
                   /\ events[k].id = id
                   /\ \A j \in DOMAIN events : events[j].id = id => j <= k]
     ELSE db[id]]

\* addEvents, first half: storageService.addEvents.
AddEvents ==
  /\ imp.pc = "addEvents"
  /\ dbEvents' = addEvents(dbEvents, imp.allEvents)
  /\ imp' = [imp EXCEPT !.pc = "reloadEvents"]
  /\ sync' = SyncTouched
  /\ admin' = AdminTouched
  /\ UNCHANGED <<dbCourses, credentials, isSyncing, lastSyncTime, lastRun, viewVars,
                 lastImport, marks, now, nextId, ops>>
  /\ UNCHANGED <<lastFilter, sent, timerVars, load>>

\* addEvents, second half: reloadEvents emits the table; processFiles returns.
ReloadEvents ==
  /\ imp.pc = "reloadEvents"
  /\ eventsSubject' = dbEvents
  /\ Returned(FALSE)
  /\ admin' = AdminTouched
  /\ UNCHANGED <<store, mainVars, coursesSubject, activeCourseIdsSubject, marks,
                 now, nextId, ops>>
  /\ UNCHANGED <<lastFilter, sent, timerVars, load>>

\* A store write of the write phase is rejected: processFiles catches the
\* error, reports it and returns.
ImportWriteFails ==
  /\ imp.pc \in {"addCourse", "addEvents"}
  /\ Returned(TRUE)
  /\ UNCHANGED <<admin, store, mainVars, viewVars, marks, now, nextId, ops>>
  /\ UNCHANGED <<lastFilter, sent, timerVars, load>>

(* --------------------- store management and clock -------------------- *)

\* No clearDatabase or deleteCourse is in flight, and none has been.  id,
\* before and foreign are history: the course of the last deleteCourse, the
\* store at its call, and whether another operation has written to the store
\* or emitted to the view since.
NoAdmin ==
  [ pc |-> "idle", id |-> "", before |-> [events |-> <<>>, courses |-> <<>>],
    foreign |-> FALSE ]

\* clearDatabase (confirmed), first half: clearAllData awaits events.clear().
ClearEvents ==
  /\ admin.pc = "idle"
  /\ ops < MaxOps
  /\ ops' = ops + 1
  /\ dbEvents' = <<>>
  /\ admin' = [NoAdmin EXCEPT !.pc = "clearCourses"]
  /\ sync' = SyncTouched
  /\ imp' = ImportTouched
  /\ UNCHANGED <<dbCourses, credentials, isSyncing, lastSyncTime, lastRun, viewVars,
                 lastImport, marks, now, nextId>>
  /\ UNCHANGED <<lastFilter, sent, timerVars, load>>

\* clearDatabase, second half: courses.clear(), the three subjects emit
\* empty values and importResults is emptied.
ClearCourses ==
  /\ admin.pc = "clearCourses"
  /\ dbCourses' = <<>>
  /\ eventsSubject' = <<>>
  /\ coursesSubject' = <<>>
  /\ activeCourseIdsSubject' = {}
  /\ admin' = NoAdmin
  /\ sync' = SyncTouched
  /\ imp' = [ImportTouched EXCEPT !.importResults = <<>>]
  /\ UNCHANGED <<dbEvents, credentials, isSyncing, lastSyncTime, lastRun, lastImport,
                 marks, now, nextId, ops>>
  /\ UNCHANGED <<lastFilter, sent, timerVars, load>>

\* deleteEvent(id) on an event the view shows: the row is deleted and
\* reloadEvents emits the table.
DeleteEvent ==
  /\ admin.pc = "idle"
  /\ ops < MaxOps
  /\ ops' = ops + 1
  /\ \E id \in DOMAIN filteredEvents :
       /\ dbEvents' = Drop(dbEvents, {id})
       /\ eventsSubject' = dbEvents'
  /\ sync' = SyncTouched
  /\ imp' = ImportTouched
  /\ admin' = AdminTouched
  /\ UNCHANGED <<dbCourses, credentials, isSyncing, lastSyncTime, lastRun, coursesSubject,
                 activeCourseIdsSubject, lastImport, marks, now, nextId>>
  /\ UNCHANGED <<lastFilter, sent, timerVars, load>>

\* A deleteEventsByCourse that deletes nothing.
deleteEventsByCourseNone(db, courseId) == db

\* deleteEventsByCourse: events.where('courseId').equals(courseId).delete().
deleteEventsByCourse(db, courseId) ==
  Drop(db, {e \in DOMAIN db : db[e].courseId = courseId})

\* deleteCourse(id) on a course the view lists, first half:
\* deleteEventsByCourse(id).
DeleteCourseEvents ==
  /\ admin.pc = "idle"
  /\ ops < MaxOps
  /\ ops' = ops + 1
  /\ \E id \in DOMAIN coursesSubject :
       /\ dbEvents' = deleteEventsByCourse(dbEvents, id)
       /\ admin' = [ pc |-> "deleteCourse", id |-> id,
                     before |-> [events |-> dbEvents, courses |-> dbCourses],
                     foreign |-> FALSE ]
  /\ sync' = SyncTouched
  /\ imp' = ImportTouched
  /\ UNCHANGED <<dbCourses, credentials, isSyncing, lastSyncTime, lastRun, viewVars,
                 lastImport, marks, now, nextId>>
  /\ UNCHANGED <<lastFilter, sent, timerVars, load>>

\* deleteCourse(id), second half: courses.delete(id), both tables are
\* reloaded and emitted, and the id leaves the active ids.
DeleteCourseRow ==
  /\ admin.pc = "deleteCourse"
  /\ dbCourses' = Drop(dbCourses, {admin.id})
  /\ coursesSubject' = dbCourses'
  /\ eventsSubject' = dbEvents
  /\ activeCourseIdsSubject' = activeCourseIdsSubject \ {admin.id}
  /\ admin' = [admin EXCEPT !.pc = "idle"]
  /\ sync' = SyncTouched
  /\ imp' = ImportTouched
  /\ UNCHANGED <<dbEvents, credentials, isSyncing, lastSyncTime, lastRun, lastImport,
                 marks, now, nextId, ops>>
  /\ UNCHANGED <<lastFilter, sent, timerVars, load>>

\* Time passes.
Tick ==
  /\ now < MaxTime
  /\ now' = now + 1
  /\ UNCHANGED <<store, mainVars, viewVars, importVars, marks, admin, nextId, ops>>
  /\ UNCHANGED <<lastFilter, sent, timerVars, load>>

(* ------------------------- the auto-sync timer ------------------------ *)

\* store.get('syncInterval', 30): the default period in minutes.
DefaultMinutes == 30

\* The periods the settings offer, in minutes.
Minutes == {15, 30}

\* this.syncInterval = null.
NoTimer == ""

\* The timer a setInterval call returns: one no earlier call returned.
setInterval == "timer-" \o ToString(ops + 1)

\* A startAutoSync that leaves a timer it finds alone.
StopsFirstNever == FALSE

\* startAutoSync: if (this.syncInterval) this.stopAutoSync().
StopsFirst == syncInterval # NoTimer

\* The timers left by stopAutoSync: clearInterval on the timer the service
\* holds, if it holds one.
stopAutoSync == IF syncInterval # NoTimer THEN Drop(timers, {syncInterval}) ELSE timers

\* startAutoSync, with stored: the credentials are in the store, and
\* minutes: the value of syncIntervalMinutes.  A timer it holds is stopped,
\* syncNow is called at once, and a new timer of that period is set and
\* held.
startAutoSync(stored, minutes) ==
  /\ SyncNowCall(stored)
  /\ syncInterval' = setInterval
  /\ timers' = Put(IF StopsFirst THEN stopAutoSync ELSE timers, setInterval, minutes)

\* getSyncStatus().autoSyncEnabled.
autoSyncEnabled == syncInterval # NoTimer

\* The 'save-credentials' handler: the credentials are stored and auto-sync
\* starts (as it does in app.whenReady when credentials are stored).
SaveCredentials ==
  /\ credentials' = TRUE
  /\ startAutoSync(TRUE, syncIntervalMinutes)
  /\ UNCHANGED syncIntervalMinutes

\* The 'delete-credentials' handler: the credentials are deleted and
\* auto-sync stops.
DeleteCredentials ==
  /\ credentials
  /\ credentials' = FALSE
  /\ timers' = stopAutoSync
  /\ syncInterval' = NoTimer
  /\ UNCHANGED <<store, isSyncing, lastSyncTime, sync, lastRun, viewVars, importVars, marks,
                 admin, now, nextId, ops, lastFilter, sent, syncIntervalMinutes, load>>

\* The 'set-sync-interval' handler, setSyncInterval(minutes): the period is
\* kept; auto-sync restarts when a timer is held.
SetSyncInterval ==
  /\ \E minutes \in Minutes :
       /\ syncIntervalMinutes' = minutes
       /\ IF syncInterval # NoTimer
          THEN startAutoSync(credentials, minutes)
          ELSE UNCHANGED <<store, isSyncing, lastSyncTime, sync, lastRun, viewVars,
                           importVars, marks, admin, now, nextId, ops, lastFilter, sent,
                           syncInterval, timers, load>>
  /\ UNCHANGED credentials

\* A live timer fires: its callback calls syncNow.
TimerFires ==
  /\ timers # <<>>
  /\ SyncNowCall(credentials)
  /\ UNCHANGED <<credentials, timerVars>>

(* ------------------- EventManagerService.loadData --------------------- *)

\* No loadData is in flight.
NoLoad == [pc |-> "idle", events |-> <<>>, courses |-> <<>>]

\* loadData (reloadData) is called: getAllEvents and getAllCourses read the
\* two tables.
LoadDataRead ==
  /\ load.pc = "idle"
  /\ ops < MaxOps
  /\ ops' = ops + 1
  /\ load' = [pc |-> "read", events |-> dbEvents, courses |-> dbCourses]
  /\ UNCHANGED <<store, mainVars, viewVars, importVars, marks, admin, now, nextId,
                 lastFilter, sent, timerVars>>

\* The reads of loadData have resolved: it emits the events and the courses
\* it read and makes the ids of those courses the active ids.
LoadDataEmit ==
  /\ load.pc = "read"
  /\ eventsSubject' = load.events
  /\ coursesSubject' = load.courses
  /\ activeCourseIdsSubject' = DOMAIN load.courses
  /\ load' = NoLoad
  /\ admin' = AdminTouched
  /\ UNCHANGED <<store, mainVars, importVars, marks, now, nextId, ops, lastFilter, sent,
                 timerVars>>

(* -------------------------- specification ----------------------------- *)

\* The application has started on an empty database: the constructor's
\* loadData has resolved and emitted the two empty tables.  The clock reads
\* one instant for the whole behaviour.

Init ==
  /\ dbEvents = <<>>
  /\ dbCourses = <<>>
  /\ credentials \in BOOLEAN
  /\ isSyncing = FALSE
  /\ lastSyncTime = -1
  /\ sync = <<>>
  /\ lastRun = NoRun
  /\ now \in 0..MaxTime
  /\ eventsSubject = <<>>
  /\ coursesSubject = <<>>
  /\ activeCourseIdsSubject = {}
  /\ imp = Idle
  /\ lastImport = NoImport
  /\ marks = 0
  /\ admin = NoAdmin
  /\ nextId = 1
  /\ ops = 0
  /\ lastFilter = NoFilter
  /\ sent = <<>>
  /\ syncInterval = NoTimer
  /\ syncIntervalMinutes = DefaultMinutes
  /\ timers = <<>>
  /\ load = NoLoad

Next ==
  \/ SyncNow
  \/ \E i \in DOMAIN sync : ScrapeDone(i)
  \/ \E i \in DOMAIN sync : ReadCourses(i)
  \/ \E i \in DOMAIN sync : ProcessCourse(i)
  \/ \E i \in DOMAIN sync : ReadEvents(i)
  \/ \E i \in DOMAIN sync : ProcessEvent(i)
  \/ \E i \in DOMAIN sync : DeleteStale(i)
  \/ \E i \in DOMAIN sync : SyncCompletes(i)
  \/ \E i \in DOMAIN sync : SyncWriteFails(i)
  \/ MarkEventCompleted
  \/ ProcessFiles
  \/ ParseFile
  \/ CollectResults
  \/ AddCourse
  \/ ReloadCourses
  \/ AddEvents
  \/ ReloadEvents
  \/ ImportWriteFails

Spec == Init /\ [][Next]_vars

\* The renderer alone, with its store management and its course filter, and
\* no rejected write.
NextManage ==
  \/ ProcessFiles
  \/ ParseFile
  \/ CollectResults
  \/ AddCourse
  \/ ReloadCourses
  \/ AddEvents
  \/ ReloadEvents
  \/ ClearEvents
  \/ ClearCourses
  \/ DeleteEvent
  \/ DeleteCourseEvents
  \/ DeleteCourseRow
  \/ ToggleCourseFilter
  \/ ShowAllCourses
  \/ HideAllCourses

SpecManage == Init /\ [][NextManage]_vars

\* File imports while time passes.
NextClock ==
  \/ ProcessFiles
  \/ ParseFile
  \/ CollectResults
  \/ AddCourse
  \/ ReloadCourses
  \/ AddEvents
  \/ ReloadEvents
  \/ Tick

SpecClock == Init /\ [][NextClock]_vars

\* Syncs of a site whose page is given by its DOM elements.
NextScraper ==
  \/ SyncNow
  \/ \E i \in DOMAIN sync : ScrapeElements(i)
  \/ \E i \in DOMAIN sync : ReadCourses(i)
  \/ \E i \in DOMAIN sync : ProcessCourse(i)
  \/ \E i \in DOMAIN sync : ReadEvents(i)
  \/ \E i \in DOMAIN sync : ProcessEvent(i)
  \/ \E i \in DOMAIN sync : DeleteStale(i)
  \/ \E i \in DOMAIN sync : SyncCompletes(i)

SpecScraper == Init /\ [][NextScraper]_vars

\* One import of a selection of documents.
NextParser ==
  \/ ImportDocuments
  \/ ParseFile
  \/ CollectResults
  \/ AddCourse
  \/ ReloadCourses
  \/ AddEvents
  \/ ReloadEvents

SpecParser == Init /\ [][NextParser]_vars

\* Syncs of such a site in which a store write can be rejected, with every
\* awaited promise of a sync settling in the end: the navigation and the
\* waits of the scraper carry timeouts, the store operations resolve or
\* reject, and the event loop then runs the continuation.
NextGuard ==
  \/ NextScraper
  \/ \E i \in DOMAIN sync : SyncWriteFails(i)

\* The continuation of an awaited promise of some syncNow in flight.
SyncStep ==
  \E i \in DOMAIN sync :
    \/ ScrapeElements(i)
    \/ ReadCourses(i)
    \/ ProcessCourse(i)
    \/ ReadEvents(i)
    \/ ProcessEvent(i)
    \/ DeleteStale(i)
    \/ SyncCompletes(i)
    \/ SyncWriteFails(i)

SpecGuard == Init /\ [][NextGuard]_vars /\ WF_vars(SyncStep)

\* Syncs of such a site started by the auto-sync timer and its settings.
NextTimer ==
  \/ SaveCredentials
  \/ DeleteCredentials
  \/ SetSyncInterval
  \/ TimerFires
  \/ \E i \in DOMAIN sync : ScrapeElements(i)
  \/ \E i \in DOMAIN sync : ReadCourses(i)
  \/ \E i \in DOMAIN sync : ProcessCourse(i)
  \/ \E i \in DOMAIN sync : ReadEvents(i)
  \/ \E i \in DOMAIN sync : ProcessEvent(i)
  \/ \E i \in DOMAIN sync : DeleteStale(i)
  \/ \E i \in DOMAIN sync : SyncCompletes(i)

SpecTimer == Init /\ [][NextTimer]_vars

\* File imports and reloads of the view.
NextLoad ==
  \/ ProcessFiles
  \/ ParseFile
  \/ CollectResults
  \/ AddCourse
  \/ ReloadCourses
  \/ AddEvents
  \/ ReloadEvents
  \/ LoadDataRead
  \/ LoadDataEmit

SpecLoad == Init /\ [][NextLoad]_vars

(* ------------------------------ claims -------------------------------- *)

\* processScrapedData of invocation s has made its last store write.
Finished(s) ==
  \/ s.pc = "deleted"
  \/ s.pc = "events" /\ s.idx > Len(s.events) /\ eventIdsToDelete(s) = {}

\* The ids of the courses of a scraped batch.
BatchCourseIds(s) == {s.courses[k].id : k \in DOMAIN s.courses}

\* A stored event and a scraped draft have the same (courseId, title, dueDate).
SameIdentity(stored, draft) ==
  /\ stored.courseId = draft.courseId
  /\ stored.title = draft.title
  /\ stored.startDate = FromIso(draft.dueDate)

\* C1 (scrape-sync idempotence): when processScrapedData has run on a batch
\* and runs again on the same courses and events, from the store the first
\* run left and with no other writer in between, the store holds the same
\* number of events under the same ids as before the second run.
ScrapeSyncIdempotent ==
  \A i \in DOMAIN sync :
    ( /\ Finished(sync[i])
      /\ ~sync[i].foreign
      /\ lastRun.ran
      /\ lastRun.courses = sync[i].courses
      /\ lastRun.events = sync[i].events
      /\ sync[i].before.events = lastRun.after )
    => DOMAIN dbEvents = DOMAIN sync[i].before.events

\* C2 (stale removal): when the store holds events of a scraped course, and
\* every draft the batch has for that course has the (courseId, title,
\* dueDate) of one of them, while some stored event of the course has no such
\* draft, then after processScrapedData the events that have a draft are
\* stored under their original ids with the draft's fields and the events
\* without one are gone.
StaleRemoval ==
  \A i \in DOMAIN sync :
    (Finished(sync[i]) /\ ~sync[i].foreign) =>
      \A c \in BatchCourseIds(sync[i]) :
        LET old == sync[i].before.events
            stored == {id \in DOMAIN old : old[id].courseId = c}
            drafts == {k \in DOMAIN sync[i].events : sync[i].events[k].courseId = c}
            draftOf(id) == {k \in drafts : SameIdentity(old[id], sync[i].events[k])}
            matched == {id \in stored : draftOf(id) # {}}
        IN ( /\ matched # {}
             /\ matched # stored
             /\ \A k \in drafts : \E id \in stored : k \in draftOf(id) )
           => /\ \A id \in matched :
                   /\ id \in DOMAIN dbEvents
                   /\ \E k \in draftOf(id) :
                        /\ SameIdentity(dbEvents[id], sync[i].events[k])
                        /\ dbEvents[id].status = SyncStatus(sync[i].events[k].dueDate)
              /\ \A id \in stored \ matched : id \notin DOMAIN dbEvents

\* C3 (file-import idempotence): when processFiles has imported some files
\* and imports the same files again, from the store the first import left and
\* with no other writer in between, then after the writes of the second
\* import the store holds the same events with the same field values.
FileImportIdempotent ==
  ( /\ imp.pc = "reloadEvents"
    /\ ~imp.foreign
    /\ lastImport.ran
    /\ lastImport.files = imp.files
    /\ imp.before.events = lastImport.after )
  => dbEvents = imp.before.events

\* C4 (sticky completed status): an event whose status is completed keeps
\* that status in every step that keeps the event stored.
CompletedIsSticky ==
  [][ \A id \in DOMAIN dbEvents :
        (dbEvents[id].status = "completed" /\ id \in DOMAIN dbEvents')
        => dbEvents'[id].status = "completed" ]_vars

\* C5 (no deletion from file import): while processFiles runs and no other
\* writer touches the store, every event id stored when it started is still
\* stored.
NoDeletionFromFileImport ==
  (imp.pc # "idle" /\ ~imp.foreign) => DOMAIN imp.before.events \subseteq DOMAIN dbEvents

\* C5, its case: events uid-1 and uid-2 are stored, a file holding only the
\* entry uid-1 has been imported and written, and uid-2 is still stored.
ImportedOnlyA ==
  /\ imp.pc = "reloadEvents"
  /\ ~imp.foreign
  /\ {imp.allEvents[k].id : k \in DOMAIN imp.allEvents} = {"uid-1"}
  /\ {"uid-1", "uid-2"} \subseteq DOMAIN imp.before.events
  /\ "uid-2" \in DOMAIN dbEvents

\* C6 (scrape-sync deletion scoped per course): after processScrapedData,
\* with no other writer in between, every event that was stored for a course
\* outside the scraped batch is stored unchanged.
DeletionScopedPerCourse ==
  \A i \in DOMAIN sync :
    (Finished(sync[i]) /\ ~sync[i].foreign) =>
      \A id \in DOMAIN sync[i].before.events :
        sync[i].before.events[id].courseId \notin BatchCourseIds(sync[i])
        => (id \in DOMAIN dbEvents /\ dbEvents[id] = sync[i].before.events[id])

\* C7 (a failed course fetch does not delete): after processScrapedData, with
\* no other writer in between, every event that was stored for a course whose
\* calendar fetch failed in this sync is still stored.
FailedFetchDoesNotDelete ==
  \A i \in DOMAIN sync :
    (Finished(sync[i]) /\ ~sync[i].foreign) =>
      \A id \in DOMAIN sync[i].before.events :
        sync[i].before.events[id].courseId \in sync[i].failed => id \in DOMAIN dbEvents

\* The syncNow invocations between isSyncing = true and finally.
InFlightCalls == {i \in DOMAIN sync : InFlight(sync[i])}

\* C8 (single in-flight sync): at most one syncNow invocation is in flight,
\* and isSyncing is true exactly then; a call made while isSyncing is true
\* returns success = false at once, leaves the store and the running
\* invocation alone, and never takes a step later (it is not queued).
SingleInFlightSync ==
  /\ [](Cardinality(InFlightCalls) <= 1 /\ (isSyncing <=> InFlightCalls # {}))
  /\ [][ /\ (isSyncing /\ Len(sync') = Len(sync) + 1) =>
              /\ sync'[Len(sync')].pc = "rejected"
              /\ ~sync'[Len(sync')].result.success
              /\ SubSeq(sync', 1, Len(sync)) = sync
              /\ store' = store
              /\ isSyncing'
         /\ \A i \in DOMAIN sync :
              sync[i].pc = "rejected" => (i \in DOMAIN sync' /\ sync'[i] = sync[i]) ]_vars

\* C8, its case: a call has been rejected while another is in flight, after
\* its scrape.
RejectedWhileSyncing ==
  \E i, j \in DOMAIN sync :
    /\ sync[i].pc = "rejected"
    /\ sync[i].result = AlreadyInProgress
    /\ sync[j].pc = "events"

\* The events a file-import batch stores, by id.
BatchEvents == addEvents(<<>>, imp.allEvents)

\* C9 (batch atomicity towards the view): while the write phase of
\* processFiles runs, the latest values of courses$ and events$ hold either
\* none of the batch's courses and events or all of them.
BatchAtomicInView ==
  imp.pc \in {"addCourse", "reloadCourses", "addEvents", "reloadEvents"} =>
    LET batchCourses == {imp.allCourses[k].id : k \in DOMAIN imp.allCourses}
        shownCourses == batchCourses \cap DOMAIN coursesSubject
        shownEvents == {id \in DOMAIN BatchEvents :
                          id \in DOMAIN eventsSubject /\ eventsSubject[id] = BatchEvents[id]}
    IN \/ shownCourses = {} /\ shownEvents = {}
       \/ shownCourses = batchCourses /\ shownEvents = DOMAIN BatchEvents

\* C10 (no partial commit on store failure): when a store write of a batch is
\* rejected (in processFiles or in processScrapedData) and no other writer
\* touched the store during the batch, the store holds the courses and events
\* it held before the batch started.
NoPartialCommit ==
  [][ /\ (ImportWriteFails /\ ~imp.foreign) =>
           (dbEvents' = imp.before.events /\ dbCourses' = imp.before.courses)
      /\ \A i \in DOMAIN sync :
           (SyncWriteFails(i) /\ ~sync[i].foreign) =>
             (dbEvents' = sync[i].before.events /\ dbCourses' = sync[i].before.courses) ]_vars

\* ImportComponent.hasSuccessfulImports.
hasSuccessfulImports ==
  Len(imp.importResults) > 0 /\ \E k \in DOMAIN imp.importResults : imp.importResults[k].success

\* C11 (a failed write phase is not reported as success): when processFiles
\* has returned through its catch block, no entry of importResults has
\* success = true, so hasSuccessfulImports() is false.
FailedImportReportsNoSuccess ==
  (imp.pc = "idle" /\ imp.failed) =>
    /\ \A k \in DOMAIN imp.importResults : ~imp.importResults[k].success
    /\ ~hasSuccessfulImports

\* C12 (courses before events): in every store state, the intermediate ones
\* of a file import, of deleteCourse and of clearAllData included, each
\* stored event's courseId is the id of a stored course.
CoursesBeforeEvents ==
  \A id \in DOMAIN dbEvents : dbEvents[id].courseId \in DOMAIN dbCourses

\* The stored events of a course.
EventsOfCourse(c) == {id \in DOMAIN dbEvents : dbEvents[id].courseId = c}

\* C13 (eventCount invariant): when no operation is in flight (file imports,
\* deleteEvent, deleteCourse and clearAllData have all completed, none of
\* them with a rejected write), every stored course's eventCount is the
\* number of stored events with its id as courseId.
EventCountInvariant ==
  (imp.pc = "idle" /\ admin.pc = "idle") =>
    \A c \in DOMAIN dbCourses : dbCourses[c].eventCount = Cardinality(EventsOfCourse(c))

\* C14 (color stability): no step changes the color or the isActive flag of
\* a course that is stored before and after it.
ColorStability ==
  [][ \A c \in DOMAIN dbCourses \cap DOMAIN dbCourses' :
        /\ dbCourses'[c].color = dbCourses[c].color
        /\ dbCourses'[c].isActive = dbCourses[c].isActive ]_vars

\* C14, its case: a sync has gone through its course loop; the batch held a
\* course that was stored already, whose eventCount the loop changed, and a
\* course seen for the first time.
ResyncedBesideNewCourse ==
  \E i \in DOMAIN sync :
    /\ sync[i].pc = "courses"
    /\ sync[i].idx > Len(sync[i].courses)
    /\ \E c \in BatchCourseIds(sync[i]) \cap sync[i].existingCourseIds :
         /\ c \in DOMAIN sync[i].before.courses
         /\ c \in DOMAIN dbCourses
         /\ dbCourses[c].eventCount # sync[i].before.courses[c].eventCount
    /\ BatchCourseIds(sync[i]) \ sync[i].existingCourseIds # {}

\* overdue exactly when endDate < the current time, upcoming otherwise.
StatusAt(endDate, time) == IF endDate < time THEN "overdue" ELSE "upcoming"

\* C15 (status agrees with the clock at read time): at every moment, every
\* event the view delivers that is not completed has status overdue exactly
\* when its endDate is before the current time (so the overdue count is the
\* number of such events).
StatusAgreesWithClock ==
  /\ \A id \in DOMAIN filteredEvents :
       filteredEvents[id].status # "completed" =>
         filteredEvents[id].status = StatusAt(filteredEvents[id].endDate, now)
  /\ \A id \in DOMAIN dbEvents :
       dbEvents[id].status # "completed" =>
         dbEvents[id].status = StatusAt(dbEvents[id].endDate, now)

\* C16 (status derivation): every event a step writes gets status overdue
\* when endDate < now and upcoming when endDate >= now, except that an event
\* marked completed (by this step, or stored as completed before it) is
\* completed whatever its date.
StatusDerivation ==
  [][ \A id \in DOMAIN dbEvents' :
        (id \notin DOMAIN dbEvents \/ dbEvents'[id] # dbEvents[id]) =>
          dbEvents'[id].status =
            IF marks' # marks \/ (id \in DOMAIN dbEvents /\ dbEvents[id].status = "completed")
            THEN "completed"
            ELSE StatusAt(dbEvents'[id].endDate, now) ]_vars

\* The results of parseIcsFile in the running import, with their documents.
ParsedFiles == {k \in DOMAIN imp.parsed : imp.pc = "parsing"}
Document(k) == imp.files[k]
Result(k) == imp.parsed[k].parseResult

\* The keyword sets in priority order.
Keywords ==
  << [type |-> "exam", words |-> {<<"e", "x", "a", "m">>, <<"t", "e", "s", "t">>,
                               <<"m", "i", "d", "t", "e", "r", "m">>, <<"f", "i", "n", "a", "l">>}],
     [type |-> "quiz", words |-> {<<"q", "u", "i", "z">>}],
     [type |-> "project", words |-> {<<"p", "r", "o", "j", "e", "c", "t">>}],
     [type |-> "assignment", words |-> {<<"a", "s", "s", "i", "g", "n", "m", "e", "n", "t">>,
                                     <<"h", "o", "m", "e", "w", "o", "r", "k">>, <<"h", "w">>}] >>

\* The type of the first keyword set with a word in the text; other when
\* there is none.
TypeByPriority(text) ==
  LET hits == {c \in DOMAIN Keywords : \E w \in Keywords[c].words : Includes(text, w)}
  IN IF hits = {} THEN "other"
     ELSE Keywords[CHOOSE c \in hits : \A d \in hits : c <= d].type

\* C17 (type classification): every event parseIcsFile produces has the type
\* of the first keyword set, in the order exam, quiz, project, assignment,
\* that has a word in the lower-cased summary and description of its entry,
\* and other when none has.
TypeClassification ==
  \A k \in ParsedFiles :
    \A j \in DOMAIN Result(k).events :
      \A e \in DOMAIN Document(k).entries :
        Document(k).entries[e].uid = Result(k).events[j].id =>
          Result(k).events[j].eventType =
            TypeByPriority(LowerChars(Document(k).entries[e].summary) \o <<" ">>
                           \o LowerChars(Document(k).entries[e].description))

\* C17, its case: the entry "Homework 4 Exam Prep", with an exam keyword and
\* an assignment keyword, has been parsed as an exam.
ExamBeforeHomework ==
  \E k \in ParsedFiles :
    /\ Document(k).entries # <<>>
    /\ Document(k).entries[1].summary = "Homework 4 Exam Prep"
    /\ Len(Result(k).events) = 1
    /\ Result(k).events[1].eventType = "exam"

\* The ordinals of the entries of a document whose conversion fails.
FailedOrdinals(doc) == {e \in DOMAIN doc.entries : ~doc.entries[e].hasStart}

\* C18 (partial-entry resilience): for a document that parses, with n
\* entries of which those at the ordinals K fail conversion, parseIcsFile
\* returns n - |K| events, the other entries' in order, and |K| errors, one
\* per failed entry with its 1-based ordinal.
PartialEntryResilience ==
  \A k \in ParsedFiles :
    Document(k).parses =>
      LET K == FailedOrdinals(Document(k))
          n == Len(Document(k).entries)
          r == Result(k)
          good == SelectSeq([e \in 1..n |-> e], LAMBDA e : e \notin K)
      IN /\ Len(r.events) = n - Cardinality(K)
         /\ \A j \in DOMAIN r.events : r.events[j].id = Document(k).entries[good[j]].uid
         /\ Len(r.errors) = Cardinality(K)
         /\ {r.errors[j].line : j \in DOMAIN r.errors} = K
         /\ \A j \in DOMAIN r.errors : r.errors[j].severity = "error"

\* C18, its case: a document of five entries whose third fails conversion has
\* given four events and one error, with line 3.
ThirdOfFiveMalformed ==
  \E k \in ParsedFiles :
    /\ Len(Document(k).entries) = 5
    /\ FailedOrdinals(Document(k)) = {3}
    /\ Len(Result(k).events) = 4
    /\ Len(Result(k).errors) = 1
    /\ Result(k).errors[1].line = 3

\* C19 (parser success flag): for a document that parses, parseIcsFile
\* returns success = true exactly when it produced an event; a document
\* without entries gives success = false, one warning and no error.
ParserSuccessFlag ==
  \A k \in ParsedFiles :
    Document(k).parses =>
      /\ Result(k).success <=> Len(Result(k).events) > 0
      /\ Document(k).entries = <<>> =>
           /\ ~Result(k).success
           /\ Len(Result(k).warnings) = 1
           /\ Result(k).errors = <<>>

\* C19, its case: a document without entries has been parsed, with
\* success = false and the warning.
EmptyDocumentParsed ==
  \E k \in ParsedFiles :
    /\ Document(k).parses
    /\ Document(k).entries = <<>>
    /\ ~Result(k).success
    /\ Result(k).warnings = <<"No events found in ICS file">>

\* The names of the selected documents that ICAL.parse rejects.
RejectedNames == {imp.files[k].name : k \in {j \in DOMAIN imp.files : ~imp.files[j].parses}}

\* C20 (document-level rejection): a document that does not parse gives
\* success = false, exactly one error and no events, and the import that
\* holds it stores no course for that file and no event outside the courses
\* of the other files.
DocumentLevelRejection ==
  /\ \A k \in ParsedFiles :
       ~Document(k).parses =>
         /\ ~Result(k).success
         /\ Len(Result(k).errors) = 1
         /\ Result(k).events = <<>>
         /\ ~imp.parsed[k].success
         /\ imp.parsed[k].events = <<>>
  /\ imp.pc # "idle" =>
       /\ \A c \in DOMAIN dbCourses : dbCourses[c].icsFileName \notin RejectedNames
       /\ \A k \in DOMAIN imp.allCourses : imp.allCourses[k].icsFileName \notin RejectedNames
       /\ \A id \in DOMAIN dbEvents : dbEvents[id].courseId \in DOMAIN dbCourses

\* C20, its case: an import of a rejected document and a file has written
\* its events; the file's course and events are stored.
RejectedBesideFile ==
  /\ imp.pc = "reloadEvents"
  /\ RejectedNames # {}
  /\ Len(imp.files) = 2
  /\ Len(imp.importResults) = 2
  /\ \E k \in DOMAIN imp.importResults :
       ~imp.importResults[k].success /\ imp.importResults[k].fileName \in RejectedNames
  /\ Cardinality(DOMAIN dbCourses) = 1
  /\ dbEvents # <<>>

\* The entries of a document that parseIcsFile converts, in order.
Convertible(doc) ==
  IF doc.parses THEN SelectSeq(doc.entries, LAMBDA e : ~ConversionThrows(e)) ELSE <<>>

\* C21 (partial failure tolerance in a batch): when processFiles has returned
\* from a selection in which some files failed to parse, the store holds,
\* for every file that gave an event, one course (with the file's name, its
\* course name and its number of events) and all of the file's events under
\* that course, and nothing for the failing files: what the selection
\* without them would have given.
PartialFailureTolerance ==
  (imp.pc = "idle" /\ lastImport.files # <<>> /\ lastImport.ran) =>
    LET files == lastImport.files
        good == {k \in DOMAIN files : Convertible(files[k]) # <<>>}
    IN /\ {dbCourses[c].icsFileName : c \in DOMAIN dbCourses} = {files[k].name : k \in good}
       /\ Cardinality(DOMAIN dbCourses) = Cardinality(good)
       /\ \A id \in DOMAIN dbEvents : dbEvents[id].courseId \in DOMAIN dbCourses
       /\ \A k \in good :
            \E c \in DOMAIN dbCourses :
              LET entries == Convertible(files[k]) IN
              /\ dbCourses[c].icsFileName = files[k].name
              /\ dbCourses[c].name = extractCourseName(files[k])
              /\ dbCourses[c].eventCount = Len(entries)
              /\ EventsOfCourse(c) = {entries[e].uid : e \in DOMAIN entries}
              /\ \A e \in DOMAIN entries :
                   /\ dbEvents[entries[e].uid].title = entries[e].summary
                   /\ dbEvents[entries[e].uid].startDate = entries[e].start
                   /\ dbEvents[entries[e].uid].endDate = entries[e].end

\* C21, its case: processFiles has returned from a selection of a document
\* that does not parse and math.ics; the two events of math.ics are stored
\* under one course.
PersistedBesideFailure ==
  /\ imp.pc = "idle"
  /\ lastImport.ran
  /\ \E k \in DOMAIN lastImport.files : ~lastImport.files[k].parses
  /\ \E k \in DOMAIN lastImport.files : lastImport.files[k].name = "math.ics"
  /\ DOMAIN dbEvents = {"uid-1", "uid-2"}
  /\ Cardinality(DOMAIN dbCourses) = 1

\* C22 (one now per batch): in a file-import batch, two events with equal
\* endDate have the same status.
OneNowPerBatch ==
  imp.pc \in {"addCourse", "reloadCourses", "addEvents", "reloadEvents"} =>
    \A j, k \in DOMAIN imp.allEvents :
      imp.allEvents[j].endDate = imp.allEvents[k].endDate
      => imp.allEvents[j].status = imp.allEvents[k].status

NoCrossCourseCollisions ==
  (imp.pc = "reloadEvents" /\ ~imp.foreign) =>
    \A k \in DOMAIN imp.importResults :
      imp.importResults[k].success =>
        \A c \in DOMAIN imp.allCourses :
          imp.allCourses[c].icsFileName = imp.importResults[k].fileName =>
            Cardinality(EventsOfCourse(imp.allCourses[c].id)) = imp.importResults[k].eventsCount

\* C25 (cascade delete): when deleteCourse(id) has completed and no other
\* operation has written to the store or emitted to the view since its call,
\* the store holds no course with that id and no event with that courseId,
\* the courses and events of other ids are as they were at the call, events$
\* and courses$ hold the stored tables, and the id is not an active id.
CascadeDelete ==
  (admin.pc = "idle" /\ admin.id # "" /\ ~admin.foreign) =>
    /\ admin.id \notin DOMAIN dbCourses
    /\ \A e \in DOMAIN dbEvents : dbEvents[e].courseId # admin.id
    /\ dbCourses = Drop(admin.before.courses, {admin.id})
    /\ dbEvents = Drop(admin.before.events,
                       {e \in DOMAIN admin.before.events :
                          admin.before.events[e].courseId = admin.id})
    /\ eventsSubject = dbEvents
    /\ coursesSubject = dbCourses
    /\ admin.id \notin activeCourseIdsSubject

\* C25, its case: deleteCourse has completed on a course that had an event,
\* beside another course with an event, which is still stored.
CourseDeletedBesideAnother ==
  /\ admin.pc = "idle"
  /\ admin.id \in DOMAIN admin.before.courses
  /\ ~admin.foreign
  /\ \E e \in DOMAIN admin.before.events : admin.before.events[e].courseId = admin.id
  /\ dbCourses # <<>>
  /\ dbEvents # <<>>

\* C26 (scraped events use the parser's classifier): every draft a sync
\* works on has the type detectEventType gives its title and description,
\* and every event the event loop has stored has that type as eventType.
ScrapedTypeIsClassifierType ==
  \A i \in DOMAIN sync :
    sync[i].pc \in {"events", "deleted"} =>
      \A k \in DOMAIN sync[i].events :
        LET draft == sync[i].events[k]
            classified == detectEventType(draft.title, draft.description)
        IN /\ draft.type = classified
           /\ \A id \in DOMAIN dbEvents :
                ( /\ id \in sync[i].seenEventIds
                  /\ id \notin DOMAIN sync[i].before.events
                  /\ dbEvents[id].title = draft.title
                  /\ dbEvents[id].courseId = draft.courseId )
                => dbEvents[id].eventType = classified

\* C29 (denormalized course fields agree with the owning course): when no
\* file import and no sync is in flight, every stored event whose course is
\* stored has that course's color as courseColor and its name as courseName.
DenormalizedFieldsAgree ==
  (imp.pc = "idle" /\ InFlightCalls = {}) =>
    \A id \in DOMAIN dbEvents :
      dbEvents[id].courseId \in DOMAIN dbCourses =>
        /\ dbEvents[id].courseColor = dbCourses[dbEvents[id].courseId].color
        /\ dbEvents[id].courseName = dbCourses[dbEvents[id].courseId].name

\* C28 (date order invariant): every stored event has endDate >= startDate
\* (an entry that ends before it starts is stored with both dates equal to
\* its start).
DateOrder ==
  \A id \in DOMAIN dbEvents : dbEvents[id].endDate >= dbEvents[id].startDate

\* C27 (unparsable dates never drop an event): the drafts of a scrape are as
\* many as the page's elements that have a title, one per such element in
\* order, and the draft of an element whose date cannot be parsed is due at
\* the current time.
UnparsableDatesKeepEvent ==
  \A i \in DOMAIN sync :
    LET titled == SelectSeq(sync[i].elements, LAMBDA el : el.hasTitle)
        dated(el) == \/ el.datetime # "" /\ ParseDate(el.datetime) # InvalidDate
                     \/ el.datetime = "" /\ el.dateText # ""
                          /\ ParseDate(el.dateText) # InvalidDate
    IN /\ Len(sync[i].events) = Len(titled)
       /\ \A k \in DOMAIN titled :
            (k \in DOMAIN sync[i].events /\ ~dated(titled[k]))
            => sync[i].events[k].dueDate = ToIso(now)

\* C30 (course upsert refreshes the name): after processScrapedData, with
\* no other writer in between, every course of the batch is stored under the
\* name the batch observed.
UpsertRefreshesName ==
  \A i \in DOMAIN sync :
    (Finished(sync[i]) /\ ~sync[i].foreign) =>
      \A k \in DOMAIN sync[i].courses :
        /\ sync[i].courses[k].id \in DOMAIN dbCourses
        /\ dbCourses[sync[i].courses[k].id].name = sync[i].courses[k].name

\* The extensions of calendar files the fallback of the course name is
\* stated for: 'x.ics' and 'x.ical'.
CalendarExtensions == {<<".", "i", "c", "s">>, <<".", "i", "c", "a", "l">>}

\* C31: the course name of a file is the document's calendar name when it
\* has one, else the file name without its extension and without a trailing
\* '-calendar', its separators replaced by spaces and every word
\* capitalized, else 'Unnamed Course': 'math-101-calendar.ical' without a
\* calendar name yields 'Math 101'.
CourseNameFallback ==
  \A k \in DOMAIN imp.parsed :
    imp.parsed[k].success =>
      imp.parsed[k].courseName = CourseNameBy(imp.files[k], CalendarExtensions)

\* C32 (per-source report): once the parse phase of processFiles is over,
\* importResults has one entry for every selected file, in the order of the
\* selection; the entry of a file that gave events says success, the
\* course name and the number of events parsed; the entry of any other file
\* says failure, eventsCount 0 and an error message.
PerSourceReport ==
  LET files == IF imp.pc = "idle" THEN lastImport.files ELSE imp.files
  IN (imp.pc \notin {"idle", "parsing"} \/ (imp.pc = "idle" /\ files # <<>>)) =>
       /\ Len(imp.importResults) = Len(files)
       /\ \A k \in DOMAIN files :
            LET entry == imp.importResults[k]
                parsedEvents == Convertible(files[k])
            IN /\ entry.fileName = files[k].name
               /\ IF parsedEvents # <<>>
                  THEN /\ entry.success
                       /\ entry.courseName = extractCourseName(files[k])
                       /\ entry.eventsCount = Len(parsedEvents)
                  ELSE /\ ~entry.success
                       /\ entry.eventsCount = 0
                       /\ entry.error # ""

\* C32, its case: the parse phase of a selection of a rejected document
\* and math.ics is over and nothing is written yet; the report has the
\* failure first and the two events of math.ics second.
ReportOfFailureAndFile ==
  /\ imp.pc = "addCourse"
  /\ imp.k = 1
  /\ dbCourses = <<>>
  /\ Len(imp.importResults) = 2
  /\ ~imp.importResults[1].success
  /\ imp.importResults[1].error = "Failed to parse ICS file"
  /\ imp.importResults[2].success
  /\ imp.importResults[2].fileName = "math.ics"
  /\ imp.importResults[2].eventsCount = 2

\* C33 (show all / hide all): a showAllCourses sets the active course ids to
\* the ids of all the courses the view knows, a hideAllCourses sets them to
\* the empty set, whatever they were; neither changes the events or the
\* courses, in the view or in the store.
ShowAllHideAll ==
  [][ (lastFilter' # lastFilter /\ lastFilter'.op \in {"showAllCourses", "hideAllCourses"}) =>
        /\ lastFilter'.op = "showAllCourses" =>
              activeCourseIdsSubject' = DOMAIN coursesSubject
        /\ lastFilter'.op = "hideAllCourses" => activeCourseIdsSubject' = {}
        /\ UNCHANGED <<eventsSubject, coursesSubject, dbEvents, dbCourses>> ]_vars

\* C33, its case: a showAllCourses that followed another call of the filter
\* has made the two courses of the view active, while the store holds a
\* third course the view does not know yet.
AllShownBesideUnknownCourse ==
  /\ lastFilter = [op |-> "showAllCourses", odd |-> FALSE]
  /\ Cardinality(DOMAIN coursesSubject) = 2
  /\ activeCourseIdsSubject = DOMAIN coursesSubject
  /\ DOMAIN dbCourses # DOMAIN coursesSubject

\* C34 (sync failure reporting): a syncNow that failed returns success
\* false with an error message; lastSyncTime changes only in the step in
\* which a syncNow returns success; and the reply of the 'sync-now' handler
\* never reports success for a sync that failed.
SyncFailureReporting ==
  [][ /\ lastSyncTime' # lastSyncTime =>
           \E i \in DOMAIN sync :
             sync[i].pc # "done" /\ sync'[i].pc = "done" /\ sync'[i].result.success
      /\ \A i \in DOMAIN sync' :
           (sync'[i].pc = "done" /\ ~sync'[i].result.success) =>
             /\ sync'[i].result.message # ""
             /\ ~sync'[i].reply.success ]_vars

\* C35 (guard release): a syncNow that passed the guard resets isSyncing in
\* the end, whether it succeeds or fails, in the step in which it returns,
\* and a syncNow called after that is accepted; a syncNow the guard
\* rejects leaves isSyncing as it is.
GuardRelease ==
  /\ isSyncing ~> ~isSyncing
  /\ \A i \in 1..MaxOps :
       (i \in DOMAIN sync /\ InFlight(sync[i]))
         ~> (i \in DOMAIN sync /\ sync[i].pc = "done" /\ ~isSyncing)
  /\ [][ /\ \A i \in DOMAIN sync :
             (InFlight(sync[i]) /\ sync'[i].pc = "done") => ~isSyncing'
         /\ Len(sync') > Len(sync) =>
             /\ ~isSyncing => sync'[Len(sync')].pc # "rejected"
             /\ sync'[Len(sync')].pc = "rejected" => (isSyncing /\ isSyncing') ]_vars

\* C35, its case: a syncNow that passed the guard has failed after its
\* scrape or in a store write, and the syncNow called after it is accepted
\* and in flight.
AcceptedAfterFailure ==
  /\ Len(sync) = 2
  /\ sync[1].pc = "done"
  /\ sync[1].result = SyncError
  /\ sync[2].pc = "scraping"
  /\ isSyncing

\* The positions of sent that hold 'sync-start', and those that hold the
\* end of a sync.
Starts == {k \in DOMAIN sent : sent[k] = "sync-start"}
Ends == {k \in DOMAIN sent : sent[k] \in {"sync-complete", "sync-error"}}

\* The last notification is a 'sync-start'.
Started == sent # <<>> /\ sent[Len(sent)] = "sync-start"

\* C36 (notification protocol): every 'sync-start' is followed by exactly
\* one of 'sync-complete' and 'sync-error' before the next 'sync-start', and
\* neither is sent without a 'sync-start' before it; 'sync-complete' comes
\* right after 'data-updated' and after every store write of the sync; a
\* syncNow that the guard rejects sends nothing.
NotificationProtocol ==
  /\ [](\A k \in Starts :
          LET later == {m \in Starts : m > k}
              next == IF later = {} THEN Len(sent) + 1
                      ELSE CHOOSE m \in later : \A n \in later : m <= n
              between == {j \in Ends : k < j /\ j < next}
          IN /\ Cardinality(between) <= 1
             /\ later # {} => Cardinality(between) = 1)
  /\ [](\A j \in Ends :
          /\ \E k \in Starts : k < j
          /\ sent[j] = "sync-complete" => sent[j - 1] = "data-updated")
  /\ Started ~> ~Started
  /\ [][ /\ <<dbEvents, dbCourses>>' # <<dbEvents, dbCourses>> => (Started /\ Started')
         /\ Len(sync') > Len(sync) /\ sync'[Len(sync')].pc = "rejected" => sent' = sent ]_vars

\* C36, its case: a sync that failed and a sync that wrote events and
\* completed have sent their notifications.
NotifiedFailureThenSuccess ==
  /\ sent = <<"sync-start", "sync-error", "sync-start", "data-updated", "sync-complete">>
  /\ dbEvents # <<>>

\* C37 (single auto-sync timer): whatever the calls of startAutoSync,
\* stopAutoSync and setSyncInterval, at most one timer is live;
\* autoSyncEnabled is true exactly when one is, and it is the timer the
\* service holds; setSyncInterval restarts auto-sync (a new timer of the new
\* period and a syncNow at once) when it is enabled and leaves it stopped
\* when it is stopped.
SingleAutoSyncTimer ==
  /\ [](Cardinality(DOMAIN timers) <= 1)
  /\ [](autoSyncEnabled <=> timers # <<>>)
  /\ [](autoSyncEnabled => DOMAIN timers = {syncInterval})
  /\ [][ syncIntervalMinutes' # syncIntervalMinutes =>
           IF autoSyncEnabled
           THEN /\ autoSyncEnabled'
                /\ syncInterval' # syncInterval
                /\ DOMAIN timers' = {syncInterval'}
                /\ timers'[syncInterval'] = syncIntervalMinutes'
                /\ Len(sync') = Len(sync) + 1
           ELSE /\ ~autoSyncEnabled'
                /\ timers' = timers
                /\ sync' = sync ]_vars

\* C37, its case: auto-sync was started and setSyncInterval(15) has
\* restarted it; the second timer alone is live, with the new period, and
\* two syncNow calls were made.
RestartedWithNewPeriod ==
  /\ autoSyncEnabled
  /\ syncIntervalMinutes = 15
  /\ syncInterval = "timer-2"
  /\ DOMAIN timers = {"timer-2"}
  /\ timers["timer-2"] = 15
  /\ Len(sync) = 2

\* C38 (frame of a sync that fails before its write phase): the steps of a
\* syncNow up to the failure of its scrape (login, course list) write
\* nothing, and without stored credentials no step of any syncNow writes:
\* the stored courses and events are as they were.
FailedSyncWritesNothing ==
  [][ /\ \A i \in DOMAIN sync' :
           ( /\ i \in DOMAIN sync => (sync[i].pc = "scraping" /\ sync'[i] # sync[i])
             /\ sync'[i].pc \in {"scraping", "done", "rejected"} )
           => <<dbEvents, dbCourses>>' = <<dbEvents, dbCourses>>
      /\ (~credentials /\ sync' # sync) =>
           /\ <<dbEvents, dbCourses>>' = <<dbEvents, dbCourses>>
           /\ sync'[Len(sync')].pc = "done"
           /\ ~sync'[Len(sync')].result.success ]_vars

\* C38, its case: no credentials are stored, a file import has filled the
\* store, and a syncNow has failed; the store is as the import left it.
FailedSyncBesideImport ==
  /\ ~credentials
  /\ lastImport.ran
  /\ dbEvents # <<>>
  /\ dbEvents = lastImport.after
  /\ Len(sync) = 1
  /\ sync[1].pc = "done"
  /\ sync[1].result = SyncError

\* C39 (the view converges to the store): whenever no operation of the
\* renderer and no sync is in flight, the latest events and courses the
\* view has emitted are the events and courses of the store.
ViewConvergesToStore ==
  (imp.pc = "idle" /\ ~imp.failed /\ InFlightCalls = {} /\ admin.pc = "idle"
     /\ load.pc = "idle") =>
    /\ eventsSubject = dbEvents
    /\ coursesSubject = dbCourses

\* C40 (all courses start active): once a loadData has emitted, and once
\* the addCourse calls of an import have completed, with no loadData left in
\* flight, every stored course id is in the active ids (no filter operation
\* is called).
AllCoursesStartActive ==
  (imp.pc = "idle" /\ ~imp.failed /\ load.pc = "idle") =>
    activeCourseIdsSubject = DOMAIN dbCourses

====
